---------------------------- MODULE Spec2Model ----------------------------
(***************************************************************************)
(* A model of koji-adjutant's task-execution engine.                       *)
(*                                                                         *)
(*   - policy/resolver.py      PolicyResolver: cache, hub fetch, rules     *)
(*   - container/podman_manager.py   PodmanManager.run                     *)
(*   - task_adapters/*.py      the adapters' run methods                   *)
(*   - monitoring/registry.py  ContainerRegistry and TaskRegistry          *)
(*   - monitoring/server.py    the status server's GET handlers            *)
(*                                                                         *)
(* Each part has its own specification over the one set of variables; the  *)
(* parts a specification does not exercise stay at their initial value.    *)
(***************************************************************************)
EXTENDS Integers, Sequences, FiniteSets, TLC

VARIABLES
    \* ---- PolicyResolver (policy/resolver.py)
    hubTag,          \* extra.adjutant_image_policy of the tag, as the hub serves it
    hubConfig,       \* extra.adjutant_image_policy of the build config
    policy_enabled,  \* self._policy_enabled
    cache,           \* self._cache: (tag, arch) -> CachedPolicy
    now,             \* datetime.now(), in ticks
    calls,           \* number of resolve_image calls made so far
    lastCall,        \* what the last resolve_image call did and returned
    resolves,        \* (tag, arch) -> number of resolve_image calls made for it
    hubCalls,        \* (tag, arch) -> number of _fetch_policy calls made for it
    hubErrored,      \* some hub call has raised
    evicted,         \* some cache entry was dropped (expired or invalidated)
    \* ---- PodmanManager.run (container/podman_manager.py)
    engine,          \* ids of the containers the engine holds
    mpc,             \* position inside PodmanManager.run
    mspec,           \* the ContainerSpec fields run reads
    mhandle,         \* id of the handle run created (0: none)
    mlog,            \* the manager operations run has invoked, with outcome
    mruns,           \* number of run calls begun
    mraised,         \* the error that left run (NoError: none)
    \* ---- adapter run (task_adapters/*.py)
    apc,             \* position inside the adapter's run
    actx,            \* the call's inputs: adapter, session, config, init list
    aspec,           \* the command of the ContainerSpec build_spec returned
    ahandle,         \* handle variable of run (0: None)
    aidx,            \* index of the next in-container step
    alog,            \* the manager operations the adapter has invoked
    aexit,           \* exit_code variable / returned exit code
    aresult,         \* kind of result returned
    taskStatus,      \* task registry: status of the task's entry
    aruns,           \* number of adapter runs begun
    \* ---- monitoring (monitoring/registry.py, monitoring/server.py)
    containers,      \* ContainerRegistry._containers: id -> ContainerInfo
    tasks,           \* TaskRegistry._tasks: id -> TaskInfo
    clock,           \* the wall clock, in ticks
    rop,             \* the last registry call and what it returned
    resp,            \* the response to the last GET request
    lock,            \* owner of ContainerRegistry._lock (0: free)
    tpc,             \* thread -> position inside its registry call
    tdone,           \* thread -> number of calls it has completed
    seen,            \* what the list_containers calls returned
    \* ---- further parts, each held in one record
    pump,            \* the log pump of a stream_logs call (podman_manager.py)
    pull,            \* an ensure_image_available call (podman_manager.py)
    rm,              \* the engine's containers and a remove call (podman_manager.py)
    conf,            \* the configuration sources and a lookup (config.py)
    files,           \* a result directory and its classification (buildarch.py)
    web,             \* the dashboard setting and an unrouted GET request (server.py)
    ex,              \* the exec calls made on one running container (podman_manager.py)
    rth,             \* the threads inside resolve_image / invalidate_cache (resolver.py)
    hnd,             \* a monitoring handler reading one registry entry (server.py)
    scm              \* a GitHandler.checkout call (scm/git.py)

policyVars == <<hubTag, hubConfig, policy_enabled, cache, now, calls, lastCall,
                resolves, hubCalls, hubErrored, evicted>>
managerVars == <<engine, mpc, mspec, mhandle, mlog, mruns, mraised>>
adapterVars == <<apc, actx, aspec, ahandle, aidx, alog, aexit, aresult,
                 taskStatus, aruns>>
registryVars == <<containers, tasks, clock, rop, resp>>
threadVars == <<lock, tpc, tdone, seen>>
monitorVars == <<registryVars, threadVars>>
auxVars == <<pump, pull, rm, conf, files, web, ex, rth, hnd, scm>>
vars == <<policyVars, managerVars, adapterVars, monitorVars, auxVars>>

-----------------------------------------------------------------------------
(* Bounds of the model *)

MaxRules == 3        \* longest rule list drawn for the evaluation runs
MaxCalls == 6        \* resolve_image calls per behaviour
MaxTime == 3         \* clock ticks per behaviour
MaxRuns == 2         \* PodmanManager.run calls / adapter runs per behaviour

-----------------------------------------------------------------------------
(* Values *)

Tags == {"f39", "other"}
Archs == {"x86_64", "aarch64"}
TaskTypes == {"buildArch", "createrepo"}
Keys == Tags \X Archs

\* adj_config.adjutant_task_image_default()
ConfigDefault == "registry/almalinux:10"

\* Python's None (and any falsy image) of _evaluate_policy
NoImage == ""

\* adj_config.adjutant_policy_cache_ttl(), in ticks
ttl_seconds == 2

TagArchRule(t, a, img) ==
    [type |-> "tag_arch", tag |-> t, arch |-> a, task_type |-> "", image |-> img]
TagRule(t, img) ==
    [type |-> "tag", tag |-> t, arch |-> "", task_type |-> "", image |-> img]
TaskTypeRule(k, img) ==
    [type |-> "task_type", tag |-> "", arch |-> "", task_type |-> k, image |-> img]
DefaultRule(img) ==
    [type |-> "default", tag |-> "", arch |-> "", task_type |-> "", image |-> img]

\* The rules policies are drawn from: two of each type, so that a class can
\* hold two matching rules.
RuleSet ==
    { TagArchRule("f39", "x86_64", "TA"), TagArchRule("f39", "x86_64", "TA2"),
      TagRule("f39", "T"), TagRule("f39", "T2"),
      TaskTypeRule("buildArch", "B"), TaskTypeRule("buildArch", "B2"),
      DefaultRule("D"), DefaultRule("D2") }

SeqsUpTo(S, n) == UNION { [1..k -> S] : k \in 0..n }

\* The value found under extra.adjutant_image_policy: absent, or a policy dict.
Absent == [kind |-> "absent", rules |-> <<>>]
PolicyDict(rules) == [kind |-> "dict", rules |-> rules]

\* The other shapes the value can have: the policy dict wrapped under the
\* key adjutant_image_policy, and a str holding the JSON text of either
\* dict (named by what the text encodes) or text that is not JSON.
Wrapped(rules) == [kind |-> "wrapped", rules |-> rules]
JsonOf(value) == [kind |-> IF value.kind = "dict" THEN "str_dict" ELSE "str_wrapped",
                  rules |-> value.rules]
InvalidJson == [kind |-> "str_invalid", rules |-> <<>>]
isinstance_str(value) == value.kind \in {"str_dict", "str_wrapped", "str_invalid"}

\* json.loads: the dict the text encodes, or JSONDecodeError (ok = FALSE)
json_loads(text) ==
    CASE text.kind = "str_dict" -> [ok |-> TRUE, value |-> PolicyDict(text.rules)]
      [] text.kind = "str_wrapped" -> [ok |-> TRUE, value |-> Wrapped(text.rules)]
      [] OTHER -> [ok |-> FALSE, value |-> Absent]

\* The policy of the precedence scenario (tests/unit/test_policy.py).
ScenarioRules ==
    << DefaultRule("D"), TaskTypeRule("buildArch", "B"), TagRule("f39", "T"),
       TagArchRule("f39", "x86_64", "TA") >>

\* The policy of the caching tests: one tag_arch rule.
CachingRules == << TagArchRule("f39", "x86_64", "TA") >>


-----------------------------------------------------------------------------
(* PolicyResolver: pure parts *)

\* One rule of the scan in _evaluate_policy: the image the rule returns at
\* once (tag_arch, tag, task_type rule that matches and has an image), or
\* NoImage when the scan goes on.
RuleReturns(rule, tag_name, arch, task_type) ==
    IF rule.type = "tag_arch"
    THEN IF rule.tag = tag_name /\ rule.arch = arch THEN rule.image ELSE NoImage
    ELSE IF rule.type = "tag"
    THEN IF rule.tag = tag_name THEN rule.image ELSE NoImage
    ELSE IF rule.type = "task_type"
    THEN IF rule.task_type = task_type THEN rule.image ELSE NoImage
    ELSE NoImage

\* The default_image variable of _evaluate_policy after visiting one rule.
DefaultAfter(rule, default_image) ==
    IF rule.type = "default" THEN rule.image ELSE default_image

\* The for loop of _evaluate_policy from rule i on, default_image carried.
RECURSIVE EvaluateFrom(_, _, _, _, _, _)
EvaluateFrom(rules, i, default_image, tag_name, arch, task_type) ==
    IF i > Len(rules)
    THEN default_image
    ELSE LET image == RuleReturns(rules[i], tag_name, arch, task_type)
         IN  IF image # NoImage
             THEN image
             ELSE EvaluateFrom(rules, i + 1, DefaultAfter(rules[i], default_image),
                               tag_name, arch, task_type)

\* PolicyResolver._evaluate_policy
evaluate_policy(policy, tag_name, arch, task_type) ==
    EvaluateFrom(policy.rules, 1, NoImage, tag_name, arch, task_type)

\* CachedPolicy.is_valid
is_valid(cached, t) == (t - cached.cached_at) < cached.ttl_seconds

\* dict deletion and insertion on self._cache
DictDel(d, k) == [x \in (DOMAIN d) \ {k} |-> d[x]]
DictPut(d, k, v) == [x \in (DOMAIN d) \cup {k} |-> IF x = k THEN v ELSE d[x]]

\* PolicyResolver._get_cached_policy: whether a valid entry was found, and
\* the cache afterwards (an expired entry is deleted).
get_cached_policy(c, cache_key, t) ==
    IF cache_key \in DOMAIN c
    THEN IF is_valid(c[cache_key], t)
         THEN [found |-> TRUE, cache |-> c]
         ELSE [found |-> FALSE, cache |-> DictDel(c, cache_key)]
    ELSE [found |-> FALSE, cache |-> c]

\* PolicyResolver._cache_policy
cache_policy(c, cache_key, policy, t) ==
    DictPut(c, cache_key,
            [policy |-> policy, cached_at |-> t, ttl_seconds |-> ttl_seconds])

\* an _extract_policy_dict without the unwrapping step: the wrapping dict
\* has no "rules" key, so None is returned for it
extract_policy_dict_no_unwrap(policy_data) ==
    LET loaded == IF isinstance_str(policy_data) THEN json_loads(policy_data)
                  ELSE [ok |-> TRUE, value |-> policy_data]
    IN  IF ~loaded.ok \/ loaded.value.kind # "dict" THEN Absent
        ELSE loaded.value

\* PolicyResolver._extract_policy_dict: a str is decoded (None when it is
\* not JSON), the value under adjutant_image_policy is taken when that key
\* is present, and the dict is returned when it has the "rules" key
extract_policy_dict(policy_data) ==
    LET loaded == IF isinstance_str(policy_data) THEN json_loads(policy_data)
                  ELSE [ok |-> TRUE, value |-> policy_data]
    IN  IF ~loaded.ok \/ loaded.value.kind \notin {"dict", "wrapped"} THEN Absent
        ELSE IF loaded.value.kind = "wrapped"
        THEN PolicyDict(loaded.value.rules)
        ELSE loaded.value

\* _fetch_policy's reading of one extra: if isinstance(policy_json, str):
\* policy = json.loads(policy_json), whose JSONDecodeError ends the fetch
\* in the except branch; then _extract_policy_dict
policy_of_extra(policy_json) ==
    LET loaded == IF isinstance_str(policy_json) THEN json_loads(policy_json)
                  ELSE [ok |-> TRUE, value |-> policy_json]
    IN  IF loaded.ok
        THEN [policy |-> extract_policy_dict(loaded.value), raised |-> FALSE]
        ELSE [policy |-> Absent, raised |-> TRUE]

\* PolicyResolver._fetch_policy: the policy fetched (Absent for None), and
\* whether a hub call raised.  getTag is tried first; getBuildConfig only
\* when the tag carries no policy.
fetch_policy(tagExtra, configExtra, tagRaises, configRaises) ==
    IF tagRaises
    THEN [policy |-> Absent, raised |-> TRUE]
    ELSE IF tagExtra.kind # "absent"
    THEN policy_of_extra(tagExtra)
    ELSE IF configRaises
    THEN [policy |-> Absent, raised |-> TRUE]
    ELSE IF configExtra.kind # "absent"
    THEN policy_of_extra(configExtra)
    ELSE [policy |-> Absent, raised |-> FALSE]

\* The cache-hit branch of resolve_image: a valid entry was found and its
\* policy yields an image.  Otherwise resolve_image falls through.
AnsweredFromCache(found, image) == found /\ image # NoImage

\* PolicyResolver.resolve_image: the image returned, the cache afterwards,
\* and what the call did.
resolve_image(c, t, enabled, tagExtra, configExtra, tag_name, arch, task_type, tagRaises, configRaises) ==
    LET cache_key == <<tag_name, arch>>
        got == get_cached_policy(c, cache_key, t)
        cachedImage == IF got.found
                       THEN evaluate_policy(c[cache_key].policy, tag_name, arch, task_type)
                       ELSE NoImage
        fetched == fetch_policy(tagExtra, configExtra, tagRaises, configRaises)
        fetchedImage == evaluate_policy(fetched.policy, tag_name, arch, task_type)
        base == [hit |-> got.found, expired |-> (got.cache # c),
                 fetched |-> FALSE, raised |-> FALSE, policy |-> Absent]
    IN  IF AnsweredFromCache(got.found, cachedImage)
        THEN [base EXCEPT !.policy = c[cache_key].policy]
                 @@ [image |-> cachedImage, cache |-> got.cache]
        ELSE IF ~enabled
        THEN base @@ [image |-> ConfigDefault, cache |-> got.cache]
        ELSE IF fetched.policy.kind # "absent"
        THEN [base EXCEPT !.fetched = TRUE, !.policy = fetched.policy]
                 @@ [image |-> IF fetchedImage # NoImage THEN fetchedImage
                               ELSE ConfigDefault,
                     cache |-> cache_policy(got.cache, cache_key, fetched.policy, t)]
        ELSE [base EXCEPT !.fetched = TRUE, !.raised = fetched.raised]
                 @@ [image |-> ConfigDefault, cache |-> got.cache]

\* PolicyResolver.invalidate_cache(tag_name, arch); "" stands for None.
invalidate_cache(c, tag_name, arch) ==
    IF tag_name = ""
    THEN [x \in {} |-> Absent]
    ELSE IF arch = ""
    THEN [x \in {k \in DOMAIN c : k[1] # tag_name} |-> c[x]]
    ELSE DictDel(c, <<tag_name, arch>>)


-----------------------------------------------------------------------------
(* PolicyResolver: state machine *)

NoCall ==
    [n |-> 0, tag_name |-> "", arch |-> "", task_type |-> "", image |-> NoImage,
     hit |-> FALSE, fetched |-> FALSE, raised |-> FALSE, policy |-> Absent]

\* PolicyResolver.__init__ on a hub serving the given extras
InitResolver(tagExtras, configExtras, enabledValues) ==
    /\ hubTag \in tagExtras
    /\ hubConfig \in configExtras
    /\ policy_enabled \in enabledValues
    /\ cache = << >>
    /\ now = 0
    /\ calls = 0
    /\ lastCall = NoCall
    /\ resolves = [k \in Keys |-> 0]
    /\ hubCalls = [k \in Keys |-> 0]
    /\ hubErrored = FALSE
    /\ evicted = FALSE

PolicyIdle == InitResolver({Absent}, {Absent}, {TRUE})

\* One call of resolve_image; tagRaises / configRaises say whether getTag /
\* getBuildConfig raise if this call reaches them.
Resolve(tag_name, arch, task_type, tagRaises, configRaises) ==
    \E r \in { resolve_image(cache, now, policy_enabled, hubTag, hubConfig,
                             tag_name, arch, task_type, tagRaises, configRaises) } :
        /\ cache' = r.cache
        /\ calls' = calls + 1
        /\ lastCall' = [n |-> calls + 1, tag_name |-> tag_name, arch |-> arch,
                        task_type |-> task_type, image |-> r.image, hit |-> r.hit,
                        fetched |-> r.fetched, raised |-> r.raised,
                        policy |-> r.policy]
        /\ resolves' = [resolves EXCEPT ![<<tag_name, arch>>] = @ + 1]
        /\ hubCalls' = [hubCalls EXCEPT ![<<tag_name, arch>>] =
                            @ + (IF r.fetched THEN 1 ELSE 0)]
        /\ hubErrored' = (hubErrored \/ r.raised)
        /\ evicted' = (evicted \/ r.expired)
        /\ UNCHANGED <<hubTag, hubConfig, policy_enabled, now>>
        /\ UNCHANGED <<managerVars, adapterVars, monitorVars, auxVars>>

\* The clock advances.
Tick ==
    /\ now < MaxTime
    /\ now' = now + 1
    /\ UNCHANGED <<hubTag, hubConfig, policy_enabled, cache, calls, lastCall,
                   resolves, hubCalls, hubErrored, evicted>>
    /\ UNCHANGED <<managerVars, adapterVars, monitorVars, auxVars>>

\* One call of invalidate_cache ("" for an argument left None).
Invalidate(tag_name, arch) ==
    /\ cache # << >>
    /\ cache' = invalidate_cache(cache, tag_name, arch)
    /\ evicted' = (evicted \/ cache' # cache)
    /\ UNCHANGED <<hubTag, hubConfig, policy_enabled, now, calls, lastCall,
                   resolves, hubCalls, hubErrored>>
    /\ UNCHANGED <<managerVars, adapterVars, monitorVars, auxVars>>

ResolveSome(tags) ==
    \E t \in tags, a \in Archs, k \in TaskTypes, tr \in BOOLEAN, cr \in BOOLEAN :
        Resolve(t, a, k, tr, cr)

InvalidateSome(tags) ==
    \E t \in tags \cup {""}, a \in Archs \cup {""} : Invalidate(t, a)


-----------------------------------------------------------------------------
(* The parts at rest *)

NoSpec == [remove_after_exit |-> TRUE, attach_streams |-> TRUE]

NoError == [type |-> "", message |-> "", cause |-> ""]

ManagerIdle ==
    /\ engine = {}
    /\ mpc = "idle"
    /\ mspec = NoSpec
    /\ mhandle = 0
    /\ mlog = << >>
    /\ mruns = 0
    /\ mraised = NoError

NoCtx ==
    [adapter |-> "", repo_id |-> FALSE, session |-> FALSE,
     buildroot_enabled |-> FALSE, monitoring |-> FALSE, ninit |-> 0,
     ref_type |-> ""]

AdapterIdle ==
    /\ apc = "idle"
    /\ actx = NoCtx
    /\ aspec = ""
    /\ ahandle = 0
    /\ aidx = 0
    /\ alog = << >>
    /\ aexit = 0
    /\ aresult = ""
    /\ taskStatus = "absent"
    /\ aruns = 0

\* finished_at = None, task = None
None == 0

\* the parts of a response the server's clients read, before any request
NoResponse ==
    [req |-> "", code |-> 0, error |-> "", error_code |-> "",
     status |-> "", active_tasks |-> 0, tasks_completed_today |-> 0,
     task_id |-> None, task_status |-> "", log_path |-> "", lines |-> << >>]

\* fresh registries, no call made, no thread running
MonitorIdle ==
    /\ containers = << >>
    /\ tasks = << >>
    /\ clock = 1
    /\ rop = [op |-> "", id |-> 0, ret |-> 0]
    /\ resp = NoResponse
    /\ lock = 0
    /\ tpc = << >>
    /\ tdone = << >>
    /\ seen = {}

\* no log pump started, no image asked for, no option looked up, no result
\* directory read
AuxIdle ==
    /\ pump = << >>
    /\ pull = << >>
    /\ rm = << >>
    /\ conf = << >>
    /\ files = << >>
    /\ web = << >>
    /\ ex = << >>
    /\ rth = << >> /\ hnd = << >> /\ scm = << >>

-----------------------------------------------------------------------------
(* Specifications of the policy resolver *)

\* Every rule list up to MaxRules rules, and the precedence scenario's.
EvalPolicies ==
    { PolicyDict(r) : r \in SeqsUpTo(RuleSet, MaxRules) }
        \cup { PolicyDict(ScenarioRules) }

\* One resolve_image call on a fresh resolver, for every policy.
InitEval ==
    /\ InitResolver(EvalPolicies, {Absent}, {TRUE})
    /\ ManagerIdle
    /\ AdapterIdle
    /\ MonitorIdle
    /\ AuxIdle

NextEval == calls = 0 /\ ResolveSome(Tags)

SpecEval == InitEval /\ [][NextEval]_vars

\* The hubs of the caching runs.
CachePolicies ==
    { Absent, PolicyDict(ScenarioRules), PolicyDict(CachingRules),
      PolicyDict(<< TaskTypeRule("buildArch", "B") >>) }

\* Sequences of resolve_image and invalidate_cache calls as time passes.
InitCache ==
    /\ InitResolver(CachePolicies, {Absent, PolicyDict(<< DefaultRule("D") >>)},
                    BOOLEAN)
    /\ ManagerIdle
    /\ AdapterIdle
    /\ MonitorIdle
    /\ AuxIdle

\* The caching runs resolve the archs of one tag.
CacheTags == {"f39"}

NextCache ==
    \/ calls < MaxCalls /\ ResolveSome(CacheTags)
    \/ Tick
    \/ InvalidateSome(CacheTags)

SpecCache == InitCache /\ [][NextCache]_vars


-----------------------------------------------------------------------------
(* Policy precedence as the specification states it *)

Matches(rule, tag_name, arch, task_type) ==
    \/ rule.type = "tag_arch" /\ rule.tag = tag_name /\ rule.arch = arch
    \/ rule.type = "tag" /\ rule.tag = tag_name
    \/ rule.type = "task_type" /\ rule.task_type = task_type
    \/ rule.type = "default"

\* Precedence classes, highest first.
Classes == << "tag_arch", "tag", "task_type", "default" >>

\* Positions of the matching rules of class number c.
MatchesOfClass(rules, c, tag_name, arch, task_type) ==
    { i \in 1..Len(rules) :
        rules[i].type = Classes[c] /\ Matches(rules[i], tag_name, arch, task_type) }

\* The highest class that has a matching rule (0: no rule matches).
HighestClass(rules, tag_name, arch, task_type) ==
    LET cs == { c \in 1..Len(Classes) :
                  MatchesOfClass(rules, c, tag_name, arch, task_type) # {} }
    IN  IF cs = {} THEN 0 ELSE CHOOSE c \in cs : \A d \in cs : c <= d

MinOf(S) == CHOOSE i \in S : \A j \in S : i <= j

\* The last call evaluated a policy it got from the hub or from the cache.
LastCallUsedPolicy == lastCall.n > 0 /\ lastCall.policy.kind = "dict"

LastHighestClass ==
    HighestClass(lastCall.policy.rules, lastCall.tag_name, lastCall.arch,
                 lastCall.task_type)

LastMatchesOfHighestClass ==
    MatchesOfClass(lastCall.policy.rules, LastHighestClass, lastCall.tag_name,
                   lastCall.arch, lastCall.task_type)

\* C1: the image resolve_image returns is the image of a matching rule of the
\* highest precedence class that has a matching rule (tag_arch > tag >
\* task_type > default), wherever the lower-precedence rules stand in the list.
C1_HighestPrecedenceWins ==
    (LastCallUsedPolicy /\ LastHighestClass # 0) =>
        lastCall.image \in
            { lastCall.policy.rules[i].image : i \in LastMatchesOfHighestClass }

\* C2: when the returned image comes from a rule of the deciding class, it is
\* the image of the first matching rule of that class in list order; this
\* includes the default class.
C2_FirstInClassWins ==
    (/\ LastCallUsedPolicy
     /\ LastHighestClass # 0
     /\ lastCall.image \in
            { lastCall.policy.rules[i].image : i \in LastMatchesOfHighestClass })
        => lastCall.image =
               lastCall.policy.rules[MinOf(LastMatchesOfHighestClass)].image

-----------------------------------------------------------------------------
(* Cache claims *)

\* The hub serves a policy and has answered every call the same way, and no
\* cache entry has expired or been invalidated.
StableHub ==
    /\ hubTag.kind = "dict" \/ hubConfig.kind = "dict"
    /\ ~hubErrored
    /\ ~evicted

\* C3: with a stable hub and an unexpired TTL, the resolve_image calls for
\* one (tag, arch) make at most one hub fetch, and a call that finds a valid
\* cache entry makes none, whatever its policy evaluates to.
C3_AtMostOneFetch ==
    StableHub =>
        /\ \A k \in Keys : hubCalls[k] <= 1
        /\ lastCall.hit => ~lastCall.fetched

\* C4: with a stable hub and an unexpired TTL, every (tag, arch) pair that
\* was resolved has been fetched exactly once, however often it was resolved,
\* and no other pair has been fetched.
C4_OneFetchPerKey ==
    (StableHub /\ policy_enabled) =>
        \A k \in Keys : hubCalls[k] = (IF resolves[k] > 0 THEN 1 ELSE 0)

\* The step is a resolve_image call.
IsResolveStep == calls' = calls + 1

\* C5: a resolve_image call during which the hub raises returns the config
\* default and inserts or changes no cache entry, and the next resolve_image
\* call for the same (tag, arch) calls the hub again.
C5_HubErrorNotCached ==
    [][ /\ (IsResolveStep /\ lastCall'.raised) =>
            /\ lastCall'.image = ConfigDefault
            /\ \A k \in DOMAIN cache' : k \in DOMAIN cache /\ cache'[k] = cache[k]
        /\ (/\ IsResolveStep
            /\ lastCall.raised
            /\ lastCall'.tag_name = lastCall.tag_name
            /\ lastCall'.arch = lastCall.arch) => lastCall'.fetched
      ]_vars

-----------------------------------------------------------------------------
(* PodmanManager.run (container/podman_manager.py)                         *)
(*                                                                         *)
(* The engine is a set of container ids.  Every call into the engine has   *)
(* the outcomes the podman API can produce: it succeeds, or it raises.     *)

\* A faulty remove: when the plain removal fails it gives up quietly,
\* without the stop and force-remove fallback and without raising.
remove_without_fallback(eng, id, force, plainOk, forcedOk) ==
    IF id \notin eng \/ ~plainOk
    THEN [engine |-> eng, raised |-> FALSE]
    ELSE [engine |-> eng \ {id}, raised |-> FALSE]

\* _remove_container followed by remove's exception mapping: the engine
\* after the call, and whether remove raised ContainerError.
\*   - containers.get raises NotFound for an absent id: remove returns;
\*   - container.remove(force=force) succeeds: the container is gone;
\*   - it fails and force was not asked: stop (errors ignored), then
\*     container.remove(force=True); if that fails too the APIError is
\*     re-raised;
\*   - it fails and force was asked: the APIError is re-raised.
remove(eng, id, force, plainOk, forcedOk) ==
    IF id \notin eng
    THEN [engine |-> eng, raised |-> FALSE]
    ELSE IF plainOk
         THEN [engine |-> eng \ {id}, raised |-> FALSE]
         ELSE IF ~force /\ forcedOk
              THEN [engine |-> eng \ {id}, raised |-> FALSE]
              ELSE [engine |-> eng, raised |-> TRUE]

Specs == [remove_after_exit : BOOLEAN, attach_streams : BOOLEAN]

\* the error a failing call of the manager throws, named by the call
ErrorOf(op) == [type |-> "ContainerError", message |-> op, cause |-> "APIError"]

\* run's except branch letting an error of the forced remove propagate in
\* place of the ContainerError that wraps the original error
run_except_raises_remove_error(exc, removeRaised) ==
    IF removeRaised
    THEN ErrorOf("remove")
    ELSE [type |-> "ContainerError", message |-> "container run failed",
          cause |-> exc.message]

\* run's except branch: try: self.remove(handle, force=True)
\*                      finally: raise ContainerError("container run failed", cause=exc)
\* The raise in the finally block replaces an error remove has thrown.
run_except_raises(exc, removeRaised) ==
    [type |-> "ContainerError", message |-> "container run failed",
     cause |-> exc.message]

MLog(op, res) == Append(mlog, <<op, res>>)

MDone == mpc \in {"idle", "returned", "raised"}

\* run(spec, sink, attach_streams) is called
MRunBegin(spec) ==
    /\ MDone
    /\ mruns < MaxRuns
    /\ mpc' = "ensure_image_available"
    /\ mspec' = spec
    /\ mhandle' = 0
    /\ mlog' = << >>
    /\ mruns' = mruns + 1
    /\ mraised' = NoError
    /\ UNCHANGED engine

\* self.ensure_image_available(spec.image): outside the try, an error
\* propagates as it is
MEnsureImage(ok) ==
    /\ mpc = "ensure_image_available"
    /\ mpc' = IF ok THEN "create" ELSE "raised"
    /\ mlog' = MLog("ensure_image_available", IF ok THEN "ok" ELSE "raise")
    /\ mraised' = IF ok THEN mraised ELSE ErrorOf("ensure_image_available")
    /\ UNCHANGED <<engine, mspec, mhandle, mruns>>

\* handle = self.create(spec): outside the try as well
MCreate(ok) ==
    /\ mpc = "create"
    /\ IF ok
       THEN /\ engine' = engine \cup {mruns}
            /\ mhandle' = mruns
            /\ mpc' = "start"
       ELSE /\ mpc' = "raised"
            /\ UNCHANGED <<engine, mhandle>>
    /\ mlog' = MLog("create", IF ok THEN "ok" ELSE "raise")
    /\ mraised' = IF ok THEN mraised ELSE ErrorOf("create")
    /\ UNCHANGED <<mspec, mruns>>

\* self.start(handle); it can only succeed on a container the engine holds
MStart(ok) ==
    /\ mpc = "start"
    /\ ok => mhandle \in engine
    /\ mpc' = IF ~ok THEN "except"
              ELSE IF mspec.attach_streams THEN "stream_logs" ELSE "wait"
    /\ mlog' = MLog("start", IF ok THEN "ok" ELSE "raise")
    /\ UNCHANGED <<engine, mspec, mhandle, mruns, mraised>>

\* if attach_streams: self.stream_logs(handle, sink, follow=True)
MStreamLogs(ok) ==
    /\ mpc = "stream_logs"
    /\ ok => mhandle \in engine
    /\ mpc' = IF ok THEN "wait" ELSE "except"
    /\ mlog' = MLog("stream_logs", IF ok THEN "ok" ELSE "raise")
    /\ UNCHANGED <<engine, mspec, mhandle, mruns, mraised>>

\* exit_code = self.wait(handle)
MWait(ok, code) ==
    /\ mpc = "wait"
    /\ ok => mhandle \in engine
    /\ mpc' = IF ok THEN "else" ELSE "except"
    /\ mlog' = MLog("wait", IF ok THEN code ELSE "raise")
    /\ UNCHANGED <<engine, mspec, mhandle, mruns, mraised>>

\* except BaseException: try: self.remove(handle, force=True)
\*                        finally: raise ContainerError(...)
MExcept(plainOk) ==
    /\ mpc = "except"
    /\ \E r \in { remove(engine, mhandle, TRUE, plainOk, FALSE) } :
          /\ engine' = r.engine
          /\ mlog' = MLog("remove_force", IF r.raised THEN "raise" ELSE "ok")
          /\ mraised' = run_except_raises(ErrorOf(mlog[Len(mlog)][1]), r.raised)
    /\ mpc' = "raised"
    /\ UNCHANGED <<mspec, mhandle, mruns>>

\* else: try: if spec.remove_after_exit: self.remove(handle)
\*       finally: finished_at = ...
\* An error of remove leaves run through the finally; otherwise run returns
\* the ContainerRunResult.
MElse(plainOk, forcedOk) ==
    /\ mpc = "else"
    /\ IF mspec.remove_after_exit
       THEN \E r \in { remove(engine, mhandle, FALSE, plainOk, forcedOk) } :
               /\ engine' = r.engine
               /\ mlog' = MLog("remove", IF r.raised THEN "raise" ELSE "ok")
               /\ mpc' = IF r.raised THEN "raised" ELSE "returned"
               /\ mraised' = IF r.raised THEN ErrorOf("remove") ELSE mraised
       ELSE /\ mpc' = "returned"
            /\ UNCHANGED <<engine, mlog, mraised>>
    /\ UNCHANGED <<mspec, mhandle, mruns>>

\* The container disappears from the engine behind run's back (removed by
\* an operator or by the engine): the case remove answers with NotFound.
EngineLoses ==
    /\ mpc \in {"start", "stream_logs", "wait", "except", "else"}
    /\ mhandle \in engine
    /\ engine' = engine \ {mhandle}
    /\ UNCHANGED <<mpc, mspec, mhandle, mlog, mruns, mraised>>

OthersIdle == UNCHANGED <<policyVars, adapterVars, monitorVars, auxVars>>

MRunBeginSome == OthersIdle /\ \E spec \in Specs : MRunBegin(spec)
MEnsureImageSome == OthersIdle /\ \E ok \in BOOLEAN : MEnsureImage(ok)
MCreateSome == OthersIdle /\ \E ok \in BOOLEAN : MCreate(ok)
MStartSome == OthersIdle /\ \E ok \in BOOLEAN : MStart(ok)
MStreamLogsSome == OthersIdle /\ \E ok \in BOOLEAN : MStreamLogs(ok)
MWaitSome ==
    OthersIdle /\ \E ok \in BOOLEAN, code \in {"exit 0", "exit 1"} : MWait(ok, code)
MExceptSome == OthersIdle /\ \E plainOk \in BOOLEAN : MExcept(plainOk)
MElseSome ==
    OthersIdle /\ \E plainOk \in BOOLEAN, forcedOk \in BOOLEAN : MElse(plainOk, forcedOk)
EngineLosesSome == OthersIdle /\ EngineLoses

InitManager == PolicyIdle /\ ManagerIdle /\ AdapterIdle /\ MonitorIdle /\ AuxIdle

NextManager ==
    \/ MRunBeginSome
    \/ MEnsureImageSome
    \/ MCreateSome
    \/ MStartSome
    \/ MStreamLogsSome
    \/ MWaitSome
    \/ MExceptSome
    \/ MElseSome
    \/ EngineLosesSome

SpecManager == InitManager /\ [][NextManager]_vars

-----------------------------------------------------------------------------
(* Container aftermath of PodmanManager.run *)

MRunOver == mpc \in {"returned", "raised"} /\ mhandle # 0

LastRemoveRaised ==
    /\ mlog # << >>
    /\ mlog[Len(mlog)][1] \in {"remove", "remove_force"}
    /\ mlog[Len(mlog)][2] = "raise"

ThrownInTry ==
    { i \in 1..Len(mlog) :
        mlog[i][1] \in {"start", "stream_logs", "wait"} /\ mlog[i][2] = "raise" }

\* C24: when start, stream_logs or wait throws during run, the forced
\* remove is attempted exactly once, right after the failing call and before
\* anything propagates, and what leaves run is a ContainerError whose cause
\* is the original error, also when the forced remove itself failed.
C24_ForceRemoveThenContainerError ==
    /\ mpc = "except" => (ThrownInTry # {} /\ mraised = NoError)
    /\ (mpc = "raised" /\ ThrownInTry # {}) =>
          /\ ThrownInTry = {Len(mlog) - 1}
          /\ mlog[Len(mlog)][1] = "remove_force"
          /\ Cardinality({ j \in 1..Len(mlog) :
                             mlog[j][1] \in {"remove", "remove_force"} }) = 1
          /\ mraised.type = "ContainerError"
          /\ mraised.message = "container run failed"
          /\ mraised.cause = mlog[Len(mlog) - 1][1]

\* wait threw, the forced remove failed as well, and run raised the
\* ContainerError that wraps the error of wait
C24_Witness ==
    /\ mpc = "raised"
    /\ Len(mlog) >= 2
    /\ mlog[Len(mlog) - 1] = <<"wait", "raise">>
    /\ mlog[Len(mlog)] = <<"remove_force", "raise">>
    /\ mraised.cause = "wait"

-----------------------------------------------------------------------------
(* The adapters' run methods (task_adapters/*.py)                          *)
(*                                                                         *)
(* A run is followed call by call: every call into the container manager   *)
(* is one step whose outcome the engine decides (it succeeds, an exec      *)
(* returns a non-zero exit code, or the manager raises ContainerError).    *)

MaxInit == 2         \* longest init_commands list

Adapters == {"buildArch", "rebuildSRPM", "buildSRPMFromSCM", "createrepo"}
RefTypes == {"commit", "branch", "unsupported"}

\* the inputs of one run; only BuildSRPMFromSCM has an SCM url
Ctxs ==
    { ctx \in [adapter : Adapters, repo_id : BOOLEAN, session : BOOLEAN,
               buildroot_enabled : BOOLEAN, monitoring : BOOLEAN,
               ninit : 1..MaxInit, ref_type : RefTypes \cup {""}] :
        ctx.ref_type = "" <=> ctx.adapter # "buildSRPMFromSCM" }

\* spec.command values
Sleep == "/bin/sleep infinity"
BashBuildroot == "/bin/bash -c buildroot-init.sh; rpmbuild --rebuild"
BashPhase1 == "/bin/bash -c rpmbuild --rebuild"
CreaterepoCommand == "/bin/bash -c createrepo_c"

\* the keys of the dict BuildrootInitializer.initialize returns
InitResultKeys ==
    {"repo_file_content", "repo_file_dest", "macros_file_content",
     "macros_file_dest", "init_commands", "build_command", "environment",
     "dependencies", "tag_id", "tag_name"}

\* use_buildroot = session is not None and adjutant_buildroot_enabled()
use_buildroot(ctx) == ctx.session /\ ctx.buildroot_enabled

\* The command of the ContainerSpec build_spec returns.  BuildArchAdapter
\* reads init_result["script"] and init_result["macros"]; a missing key (as
\* an error of initialize) is caught and falls back to the Phase 1 command.
build_spec(ctx) ==
    CASE ctx.adapter = "rebuildSRPM" -> Sleep
      [] ctx.adapter = "buildSRPMFromSCM" -> Sleep
      [] ctx.adapter = "createrepo" -> CreaterepoCommand
      [] ctx.adapter = "buildArch" ->
            IF use_buildroot(ctx) /\ {"script", "macros"} \subseteq InitResultKeys
            THEN BashBuildroot
            ELSE BashPhase1

\* the ValueErrors run raises before it builds the spec
RaisesValueError(ctx) ==
    \/ ctx.adapter \in {"buildArch", "rebuildSRPM"} /\ ~ctx.repo_id
    \/ ctx.adapter \in {"rebuildSRPM", "buildSRPMFromSCM"} /\ ~use_buildroot(ctx)

\* whether run takes the exec pattern rather than manager.run
ExecPattern(ctx, command) ==
    CASE ctx.adapter \in {"rebuildSRPM", "buildSRPMFromSCM"} -> TRUE
      [] ctx.adapter = "buildArch" -> use_buildroot(ctx) /\ command = Sleep
      [] ctx.adapter = "createrepo" -> FALSE

\* the adapters that register the task with the monitoring registry
Registers(adapter) == adapter \in {"rebuildSRPM", "buildSRPMFromSCM", "createrepo"}

\* One step: a manager call (or a host-side call), with what run does with
\* the exit code: raise on a non-zero one (check), keep it in exit_code
\* (assign).
Step(op, label, k, check, assign) ==
    [op |-> op, label |-> label, k |-> k, check |-> check, assign |-> assign]

Exec(label) == Step("exec", label, 0, FALSE, FALSE)
ExecChecked(label) == Step("exec", label, 0, TRUE, FALSE)
CopyTo(label) == Step("copy_to", label, 0, FALSE, FALSE)

\* A faulty prologue: the config files are copied before the container is
\* started.
Prologue_copy_before_start(n) ==
    << CopyTo("koji.repo"), CopyTo("macros.koji"),
       Step("start", "", 0, FALSE, FALSE),
       Step("stream_logs", "", 0, FALSE, FALSE) >>
    \o [k \in 1..n |-> Step("exec", "init", k, TRUE, TRUE)]

\* start, stream_logs, the two config files, then the init loop
Prologue(n) ==
    << Step("start", "", 0, FALSE, FALSE),
       Step("stream_logs", "", 0, FALSE, FALSE),
       CopyTo("koji.repo"), CopyTo("macros.koji") >>
    \o [k \in 1..n |-> Step("exec", "init", k, TRUE, TRUE)]

\* GitHandler.checkout
GitCheckout(ref_type) ==
    << ExecChecked("mkdir source") >>
    \o (IF ref_type = "commit"
        THEN << ExecChecked("git clone"), ExecChecked("git checkout") >>
        ELSE << ExecChecked("git clone --depth 1") >>)
    \o << Exec("git rev-parse") >>

\* the calls of the try block that follow manager.create
Program(ctx) ==
    CASE ctx.adapter = "rebuildSRPM" ->
            Prologue(ctx.ninit)
            \o << Exec("mkdir srpm"), CopyTo("srpm"),
                  Exec("mkdir SPECS SOURCES"), ExecChecked("rpm -ivh"),
                  Exec("ls SPECS"),
                  Exec("mkdir result"), ExecChecked("rpmbuild -bs"),
                  Exec("ls result") >>
      [] ctx.adapter = "buildSRPMFromSCM" ->
            Prologue(ctx.ninit)
            \o << Step("host", "get_scm_handler", 0, FALSE, FALSE) >>
            \o GitCheckout(ctx.ref_type)
            \o << Exec("test Makefile"),
                  Exec("mkdir result"), ExecChecked("build srpm"),
                  Exec("ls result") >>
      [] ctx.adapter = "buildArch" ->
            Prologue(ctx.ninit)
            \o << Step("exec", "build_command", 0, FALSE, TRUE) >>
      [] ctx.adapter = "createrepo" -> << >>

\* the outcomes a step can have
Outcomes(step, ctx) ==
    CASE step.op = "exec" -> {"ok", "nonzero", "raise"}
      [] step.op = "host" -> IF ctx.ref_type = "unsupported" THEN {"raise"} ELSE {"ok"}
      [] OTHER -> {"ok", "raise"}

\* detect_build_method: the exit code of the Makefile test picks the method
detect_build_method(log) ==
    IF \E i \in DOMAIN log : log[i].label = "test Makefile" /\ log[i].res = "ok"
    THEN "make"
    ELSE "rpmbuild"

\* the command a step execs: build_srpm picks it by the detected method
StepLabel(step, log) ==
    IF step.label = "build srpm"
    THEN (IF detect_build_method(log) = "make" THEN "make srpm" ELSE "rpmbuild -bs")
    ELSE step.label

Entry(op, label, k, res) == [op |-> op, label |-> label, k |-> k, res |-> res]

\* A faulty init loop: a non-zero exit code is never turned into an error.
StepRaises_only_manager_errors(step, outcome) == outcome = "raise"

\* whether the step throws: the manager raised, or run raises on the
\* non-zero exit code
StepRaises(step, outcome) ==
    \/ outcome = "raise"
    \/ outcome = "nonzero" /\ step.check

\* exit_code after the step
ExitAfter(step, outcome, exit_code) ==
    IF step.assign /\ outcome # "raise"
    THEN (IF outcome = "ok" THEN 0 ELSE 1)
    ELSE exit_code

\* `if handle:` of the finally block
HandleTruthy(h) == h # 0

\* Whether the cleanup block encloses step idx.  RebuildSRPM and
\* BuildSRPMFromSCM wrap everything in one try/finally; BuildArchAdapter
\* calls start and stream_logs (steps 1 and 2) before its inner try.
CleanupCovers(adapter, idx) == adapter = "buildArch" => idx > 2

ADone == apc \in {"idle", "returned", "raised"}

\* run is called: parameter checks, build_spec, task registration
ARunBegin(ctx) ==
    /\ ADone
    /\ aruns < MaxRuns
    /\ aruns' = aruns + 1
    /\ actx' = ctx
    /\ ahandle' = 0
    /\ aidx' = 0
    /\ alog' = << >>
    /\ aexit' = 0
    /\ aresult' = ""
    /\ IF RaisesValueError(ctx)
       THEN /\ apc' = "raised"
            /\ aspec' = ""
            /\ taskStatus' = "absent"
       ELSE /\ aspec' = build_spec(ctx)
            /\ taskStatus' = IF ctx.monitoring /\ Registers(ctx.adapter)
                             THEN "running" ELSE "absent"
            /\ apc' = IF ExecPattern(ctx, build_spec(ctx))
                      THEN "setup" ELSE "manager_run"

\* initialize, the config files, ensure_image_available and create
ASetup(outcome) ==
    /\ apc = "setup"
    /\ alog' = CASE outcome = "initialize raise" -> alog
                 [] outcome = "ensure_image_available raise" ->
                       Append(alog, Entry("ensure_image_available", "", 0, "raise"))
                 [] outcome = "create raise" ->
                       alog \o << Entry("ensure_image_available", "", 0, "ok"),
                                  Entry("create", "", 0, "raise") >>
                 [] outcome = "ok" ->
                       alog \o << Entry("ensure_image_available", "", 0, "ok"),
                                  Entry("create", "", 0, "ok") >>
    /\ IF outcome = "ok"
       THEN /\ ahandle' = aruns
            /\ aidx' = 1
            /\ apc' = "steps"
       ELSE /\ apc' = "except"
            /\ UNCHANGED <<ahandle, aidx>>
    /\ UNCHANGED <<actx, aspec, aexit, aresult, taskStatus, aruns>>

\* the next call of the try block
AStep(outcome) ==
    /\ apc = "steps"
    /\ aidx \in DOMAIN Program(actx)
    /\ \E step \in { Program(actx)[aidx] } :
          /\ outcome \in Outcomes(step, actx)
          /\ alog' = Append(alog, Entry(step.op, StepLabel(step, alog), step.k, outcome))
          /\ aexit' = ExitAfter(step, outcome, aexit)
          /\ IF StepRaises(step, outcome)
             THEN /\ apc' = "except"
                  /\ UNCHANGED aidx
             ELSE /\ aidx' = aidx + 1
                  /\ apc' = IF aidx = Len(Program(actx)) THEN "finally" ELSE "steps"
    /\ UNCHANGED <<actx, aspec, ahandle, aresult, taskStatus, aruns>>

\* except Exception: status failed, return (1, empty result)
AExcept ==
    /\ apc = "except"
    /\ taskStatus' = IF actx.monitoring /\ Registers(actx.adapter)
                     THEN "failed" ELSE taskStatus
    /\ aexit' = 1
    /\ aresult' = "empty"
    /\ apc' = "finally_return"
    /\ UNCHANGED <<actx, aspec, ahandle, aidx, alog, aruns>>

\* finally: if handle: manager.remove(handle, force=True), errors logged.
\* BuildArchAdapter does not catch an error of remove there: it reaches the
\* outer except, which returns (1, empty result).
AFinally(removeOk) ==
    /\ apc \in {"finally", "finally_return"}
    /\ IF HandleTruthy(ahandle) /\ CleanupCovers(actx.adapter, aidx)
       THEN /\ alog' = Append(alog, Entry("remove", "force", 0,
                                          IF removeOk THEN "ok" ELSE "raise"))
            /\ IF actx.adapter = "buildArch" /\ ~removeOk
               THEN /\ aexit' = 1
                    /\ aresult' = "empty"
                    /\ apc' = "returned"
               ELSE /\ apc' = IF apc = "finally_return" THEN "returned" ELSE "collect"
                    /\ UNCHANGED <<aexit, aresult>>
       ELSE /\ removeOk
            /\ apc' = IF apc = "finally_return" THEN "returned" ELSE "collect"
            /\ UNCHANGED <<alog, aexit, aresult>>
    /\ UNCHANGED <<actx, aspec, ahandle, aidx, taskStatus, aruns>>

\* The outcomes of manager.run(spec, sink, attach_streams=True) for a spec
\* with remove_after_exit = True, as PodmanManager.run produces them: the
\* exit code of the container, or ContainerError raised before the
\* container exists, after it was created (start, stream_logs or wait
\* failed) or by the remove of the success path.
RunOutcomes ==
    {"ok", "nonzero", "raise", "raise after create", "raise in remove"}

RunRaised(outcome) == outcome \notin {"ok", "nonzero"}

\* the create and remove calls PodmanManager.run makes on the way
RunCalls(outcome, forcedOk) ==
    CASE outcome = "raise" -> << >>
      [] outcome = "raise after create" ->
            << Entry("create", "run", 0, "ok"),
               Entry("remove", "force", 0, IF forcedOk THEN "ok" ELSE "raise") >>
      [] outcome = "raise in remove" ->
            << Entry("create", "run", 0, "ok"),
               Entry("remove", "plain", 0, "raise") >>
      [] OTHER ->
            << Entry("create", "run", 0, "ok"),
               Entry("remove", "plain", 0, "ok") >>

\* result = manager.run(spec, sink, attach_streams=True)
AManagerRun(outcome, forcedOk) ==
    /\ apc = "manager_run"
    /\ alog' = alog \o RunCalls(outcome, forcedOk)
                     \o << Entry("run", "attach_streams", 0,
                                 IF RunRaised(outcome) THEN "raise" ELSE outcome) >>
    /\ IF RunRaised(outcome)
       THEN /\ aexit' = 1
            /\ aresult' = "empty"
            /\ apc' = "returned"
            /\ taskStatus' = IF actx.monitoring /\ Registers(actx.adapter)
                             THEN "failed" ELSE taskStatus
       ELSE /\ aexit' = IF outcome = "ok" THEN 0 ELSE 1
            /\ IF actx.adapter = "createrepo" /\ outcome = "nonzero"
               THEN /\ aresult' = "empty"
                    /\ apc' = "returned"
                    /\ taskStatus' = IF actx.monitoring THEN "failed" ELSE taskStatus
               ELSE /\ apc' = "collect"
                    /\ UNCHANGED <<aresult, taskStatus>>
    /\ UNCHANGED <<actx, aspec, ahandle, aidx, aruns>>

\* artifact collection, SRPM name validation, final status update
ACollect(nsrpm, nameOk) ==
    /\ apc = "collect"
    /\ apc' = "returned"
    /\ IF actx.adapter \in {"rebuildSRPM", "buildSRPMFromSCM"}
       THEN IF nsrpm = 0
            THEN /\ aexit' = 1
                 /\ aresult' = "no srpm"
                 /\ UNCHANGED taskStatus
            ELSE IF ~nameOk
                 THEN /\ aexit' = 1
                      /\ aresult' = "name mismatch"
                      /\ UNCHANGED taskStatus
                 ELSE /\ aresult' = "result"
                      /\ taskStatus' = IF ~actx.monitoring THEN taskStatus
                                       ELSE IF aexit = 0 THEN "completed"
                                       ELSE "failed"
                      /\ UNCHANGED aexit
       ELSE /\ aresult' = "result"
            /\ taskStatus' = IF ~(actx.monitoring /\ Registers(actx.adapter))
                             THEN taskStatus
                             ELSE IF aexit = 0 THEN "completed"
                             ELSE "failed"
            /\ UNCHANGED aexit
    /\ UNCHANGED <<actx, aspec, ahandle, aidx, alog, aruns>>

AdapterOnly == UNCHANGED <<policyVars, managerVars, monitorVars, auxVars>>

ARunBeginSome == AdapterOnly /\ \E ctx \in Ctxs : ARunBegin(ctx)
ASetupSome ==
    AdapterOnly /\ \E outcome \in {"initialize raise", "ensure_image_available raise",
                                   "create raise", "ok"} : ASetup(outcome)
AStepSome == AdapterOnly /\ \E outcome \in {"ok", "nonzero", "raise"} : AStep(outcome)
AExceptSome == AdapterOnly /\ AExcept
AFinallySome == AdapterOnly /\ \E removeOk \in BOOLEAN : AFinally(removeOk)
AManagerRunSome ==
    AdapterOnly /\ \E outcome \in RunOutcomes, forcedOk \in BOOLEAN :
                      AManagerRun(outcome, forcedOk)
ACollectSome ==
    AdapterOnly /\ \E nsrpm \in {0, 1}, nameOk \in BOOLEAN : ACollect(nsrpm, nameOk)

InitAdapter == PolicyIdle /\ ManagerIdle /\ AdapterIdle /\ MonitorIdle /\ AuxIdle

NextAdapter ==
    \/ ARunBeginSome
    \/ ASetupSome
    \/ AStepSome
    \/ AExceptSome
    \/ AFinallySome
    \/ AManagerRunSome
    \/ ACollectSome

SpecAdapter == InitAdapter /\ [][NextAdapter]_vars

-----------------------------------------------------------------------------
(* Properties of the adapters' run methods *)

ARunOver == apc \in {"returned", "raised"}

ForceRemoveIdx ==
    { i \in DOMAIN alog : alog[i].op = "remove" /\ alog[i].label = "force" }

CreateSucceeded ==
    \E j \in DOMAIN alog : alog[j].op = "create" /\ alog[j].res = "ok"

\* C6: in every run of the adapters that drive a container through the
\* exec pattern (buildArch, rebuildSRPM, buildSRPMFromSCM, with a session
\* given and buildroot initialization enabled), whenever
\* manager.create succeeded, manager.remove(handle, force=True) is invoked
\* exactly once before run returns, on every path (success, a failing init
\* command, a failure of start, copy_to or exec, any raised exception); it
\* is invoked zero times when create did not succeed.
C6_ForceRemoveExactlyOnce ==
    (/\ actx.adapter \in {"buildArch", "rebuildSRPM", "buildSRPMFromSCM"}
     /\ use_buildroot(actx)) =>
       /\ Cardinality(ForceRemoveIdx) <= 1
       /\ ARunOver =>
             Cardinality(ForceRemoveIdx) = (IF CreateSucceeded THEN 1 ELSE 0)

InitIdx == { i \in DOMAIN alog : alog[i].label = "init" }

InContainer(e) == e.op \in {"exec", "copy_to"}

\* C8: the init commands are exec'd in list order, and if init command k
\* returns a non-zero exit code then init commands k+1..n and every later
\* in-container step are never exec'd, and the run returns exit code 1 with
\* the empty result.
C8_InitOrderAndAbort ==
    /\ \A i \in InitIdx : alog[i].k = Cardinality({ j \in InitIdx : j <= i })
    /\ \A i \in InitIdx :
          alog[i].res = "nonzero" =>
             /\ \A j \in DOMAIN alog : j > i => ~InContainer(alog[j])
             /\ apc = "returned" => (aexit = 1 /\ aresult = "empty")

\* a run of two init commands whose first one exited non-zero has returned
C8_Witness ==
    /\ apc = "returned"
    /\ actx.ninit = 2
    /\ \E i \in InitIdx : alog[i].k = 1 /\ alog[i].res = "nonzero"
    /\ aexit = 1
    /\ aresult = "empty"

\* C9: BuildArchAdapter uses the exec pattern whenever a session is given
\* and buildroot_enabled is true: build_spec yields `/bin/sleep infinity`
\* and run drives the container by create, start, copy_to, exec and
\* force-remove, not by the single-shot manager.run.
C9_BuildArchExecPattern ==
    (/\ actx.adapter = "buildArch"
     /\ actx.session
     /\ actx.buildroot_enabled
     /\ apc \notin {"idle", "raised"})
       => /\ aspec = Sleep
          /\ apc # "manager_run"
          /\ \A i \in DOMAIN alog : alog[i].op # "run"

\* C10: whenever an adapter run returns with monitoring enabled, the task's
\* registry entry is no longer `running`: it is `completed` when the run
\* returned exit code 0 and `failed` when it ended through an in-run
\* exception or returned a non-zero exit code.
C10_StatusOnExit ==
    (apc = "returned" /\ actx.monitoring /\ taskStatus # "absent")
       => taskStatus = (IF aexit = 0 THEN "completed" ELSE "failed")

\* C11: with monitoring enabled, every adapter has registered its task by
\* the time its container executes, so the task is listed as running then.
C11_TaskRunningWhileExecuting ==
    (actx.monitoring /\ apc \in {"steps", "manager_run"})
       => taskStatus = "running"

\* C12: once an adapter has created its container, the container registry
\* holds an entry for it (and after the remove that entry is marked removed
\* with finished_at set).
C12_ContainerRecorded ==
    (actx.monitoring /\ HandleTruthy(ahandle))
       => (/\ ahandle \in DOMAIN containers
           /\ (apc = "returned" =>
                  /\ containers[ahandle].status = "removed"
                  /\ containers[ahandle].finished_at # 0))

-----------------------------------------------------------------------------
(* monitoring/registry.py: ContainerRegistry and TaskRegistry *)

MaxClock == 3       \* the clock runs from 1 to MaxClock
history_ttl == 1    \* self._history_ttl, in ticks

ContainerIds == {1, 2}
TaskIds == {1, 2}
ContainerStatuses == {"created", "running", "exited", "removed"}
TaskStatuses == {"running", "completed", "failed"}

\* ContainerRegistry.register: a fresh ContainerInfo, replacing any older
\* one (of its fields, those the registries and the server read)
register(c, container_id, task_id) ==
    DictPut(c, container_id,
            [task_id |-> task_id, status |-> "created", finished_at |-> None])

\* ContainerRegistry.unregister deleting the entry at once
unregister_deleting(c, container_id, t) == DictDel(c, container_id)

\* ContainerRegistry.unregister: marks the entry, keeps it for the TTL
unregister(c, container_id, t) ==
    IF container_id \in DOMAIN c
    THEN [c EXCEPT ![container_id].status = "removed",
                   ![container_id].finished_at = t]
    ELSE c

\* ContainerRegistry.update_status (started_at is set by register already)
update_status(c, container_id, status) ==
    IF container_id \in DOMAIN c
    THEN [c EXCEPT ![container_id].status = status]
    ELSE c

\* ContainerRegistry.list_containers, as the set of the ids listed
list_containers(c, active_only) ==
    { id \in DOMAIN c : active_only => c[id].status # "removed" }

\* TaskRegistry.register_task
register_task(d, task_id, log_path) ==
    DictPut(d, task_id,
            [status |-> "running", finished_at |-> None, log_path |-> log_path])

\* TaskRegistry.update_task_status
update_task_status(d, task_id, status, t) ==
    IF task_id \in DOMAIN d
    THEN [d EXCEPT ![task_id].status = status,
                   ![task_id].finished_at =
                       IF status \in {"completed", "failed"} THEN t ELSE @]
    ELSE d

\* TaskRegistry.list_tasks, as the set of the ids listed
list_tasks(d, active_only) ==
    { id \in DOMAIN d : active_only => d[id].status = "running" }

\* cleanup_old_entries taking the entries that are exactly history_ttl old too
to_remove_at_ttl(d, t) ==
    { id \in DOMAIN d :
        d[id].finished_at # None /\ t - d[id].finished_at >= history_ttl }

\* cleanup_old_entries of either registry: the ids put on to_remove
to_remove(d, t) ==
    { id \in DOMAIN d :
        d[id].finished_at # None /\ t - d[id].finished_at > history_ttl }

\* cleanup_old_entries of either registry: the dict afterwards; the value
\* returned is the number of ids on to_remove
cleanup_old_entries(d, t) == [id \in (DOMAIN d) \ to_remove(d, t) |-> d[id]]

RegistryOnly ==
    UNCHANGED <<policyVars, managerVars, adapterVars, auxVars, threadVars, resp>>

CRegister(id, task_id) ==
    /\ containers' = register(containers, id, task_id)
    /\ rop' = [op |-> "register", id |-> id, ret |-> 0]
    /\ UNCHANGED <<tasks, clock>>
    /\ RegistryOnly

CUnregister(id) ==
    /\ containers' = unregister(containers, id, clock)
    /\ rop' = [op |-> "unregister", id |-> id, ret |-> 0]
    /\ UNCHANGED <<tasks, clock>>
    /\ RegistryOnly

CUpdateStatus(id, status) ==
    /\ containers' = update_status(containers, id, status)
    /\ rop' = [op |-> "update_status", id |-> id, ret |-> 0]
    /\ UNCHANGED <<tasks, clock>>
    /\ RegistryOnly

CCleanup ==
    /\ containers' = cleanup_old_entries(containers, clock)
    /\ rop' = [op |-> "cleanup_old_entries", id |-> 0,
               ret |-> Cardinality(to_remove(containers, clock))]
    /\ UNCHANGED <<tasks, clock>>
    /\ RegistryOnly

TRegister(id, log_path) ==
    /\ tasks' = register_task(tasks, id, log_path)
    /\ rop' = [op |-> "register_task", id |-> id, ret |-> 0]
    /\ UNCHANGED <<containers, clock>>
    /\ RegistryOnly

TUpdateStatus(id, status) ==
    /\ tasks' = update_task_status(tasks, id, status, clock)
    /\ rop' = [op |-> "update_task_status", id |-> id, ret |-> 0]
    /\ UNCHANGED <<containers, clock>>
    /\ RegistryOnly

TCleanup ==
    /\ tasks' = cleanup_old_entries(tasks, clock)
    /\ rop' = [op |-> "task cleanup_old_entries", id |-> 0,
               ret |-> Cardinality(to_remove(tasks, clock))]
    /\ UNCHANGED <<containers, clock>>
    /\ RegistryOnly

\* time passes between two calls
RTick ==
    /\ clock < MaxClock
    /\ clock' = clock + 1
    /\ UNCHANGED <<containers, tasks, rop>>
    /\ RegistryOnly

\* Calls on the two registries of a worker, in any order, as time passes.
\* One task id is enough beside the two containers.
InitRegistry == PolicyIdle /\ ManagerIdle /\ AdapterIdle /\ MonitorIdle /\ AuxIdle

NextRegistry ==
    \/ \E id \in ContainerIds, task_id \in {None, 1} : CRegister(id, task_id)
    \/ \E id \in ContainerIds : CUnregister(id)
    \/ \E id \in ContainerIds, status \in ContainerStatuses : CUpdateStatus(id, status)
    \/ CCleanup
    \/ TRegister(1, "")
    \/ \E status \in TaskStatuses : TUpdateStatus(1, status)
    \/ TCleanup
    \/ RTick

SpecRegistry == InitRegistry /\ [][NextRegistry]_vars

\* d2 is d without exactly the entries that finished more than history_ttl
\* before t, and ret counts them
CleanupExact(d, d2, ret, t) ==
    /\ DOMAIN d2 \subseteq DOMAIN d
    /\ \A id \in DOMAIN d :
          (id \notin DOMAIN d2) <=>
              (d[id].finished_at # None /\ d[id].finished_at + history_ttl < t)
    /\ \A id \in DOMAIN d2 : d2[id] = d[id]
    /\ ret = Cardinality(DOMAIN d) - Cardinality(DOMAIN d2)

\* C14: cleanup_old_entries, of the container registry and of the task
\* registry, deletes an entry if and only if its finished_at is set and more
\* than history_ttl old, leaves every other entry and field as it was, and
\* returns the number of entries it deleted.
C14_CleanupExactlyExpired ==
    [][ /\ CCleanup => /\ CleanupExact(containers, containers', rop'.ret, clock)
                       /\ tasks' = tasks
        /\ TCleanup => /\ CleanupExact(tasks, tasks', rop'.ret, clock)
                       /\ containers' = containers ]_vars

\* a cleanup has deleted one finished container and kept a younger one
C14_Witness ==
    /\ rop.op = "cleanup_old_entries"
    /\ rop.ret = 1
    /\ \E id \in DOMAIN containers :
          /\ containers[id].finished_at # None
          /\ clock - containers[id].finished_at = history_ttl

\* C15: cleanup_old_entries never deletes an active entry: a container whose
\* status is not removed, a task whose status is running.
C15_CleanupKeepsActive ==
    [][ /\ CCleanup => list_containers(containers, TRUE) \subseteq DOMAIN containers'
        /\ TCleanup => list_tasks(tasks, TRUE) \subseteq DOMAIN tasks' ]_vars

\* C16: unregister deletes nothing: it sets the entry's status to removed
\* and its finished_at to now and changes no other field and no other entry
\* (an unknown id changes nothing); the entry is still returned by get and
\* is left out of the active-only listing. An entry leaves the registry only
\* in a cleanup pass that runs more than history_ttl after its finished_at.
C16_UnregisterKeepsEntry ==
    [][ /\ \A id \in ContainerIds :
             CUnregister(id) =>
               /\ DOMAIN containers' = DOMAIN containers
               /\ \A other \in DOMAIN containers \ {id} :
                     containers'[other] = containers[other]
               /\ id \in DOMAIN containers =>
                     /\ containers'[id] = [containers[id] EXCEPT
                                              !.status = "removed",
                                              !.finished_at = clock]
                     /\ id \in list_containers(containers', FALSE)
                     /\ id \notin list_containers(containers', TRUE)
        /\ \A id \in DOMAIN containers :
             id \notin DOMAIN containers' =>
               /\ CCleanup
               /\ containers[id].finished_at # None
               /\ clock - containers[id].finished_at > history_ttl ]_vars

\* an unregistered container is still in the registry one tick later, beside
\* another entry that unregister left alone
C16_Witness ==
    /\ rop.op = "unregister"
    /\ rop.id \in DOMAIN containers
    /\ containers[rop.id].status = "removed"
    /\ containers[rop.id].finished_at # None
    /\ clock > containers[rop.id].finished_at
    /\ \E other \in DOMAIN containers : other # rop.id /\ containers[other].status = "running"

-----------------------------------------------------------------------------
(* Threads on one ContainerRegistry, as test_thread_safety starts them *)

NProducers == 2     \* threads running register_containers
KRegisters == 2     \* register calls per producer, list calls of the lister

Producers == 1..NProducers
Lister == NProducers + 1

\* with self._lock: a thread between two calls takes the free lock
TLockAcquire(th) ==
    /\ tpc[th] = "idle"
    /\ tdone[th] < KRegisters
    /\ lock = 0
    /\ lock' = th
    /\ tpc' = [tpc EXCEPT ![th] = "locked"]
    /\ UNCHANGED <<containers, tdone, seen>>
    /\ UNCHANGED <<policyVars, managerVars, adapterVars, auxVars, tasks, clock, rop, resp>>

\* register_containers: the i-th call of every producer registers
\* container-i with task_id i; the lock is released on leaving the block
TRegisterLocked(th) ==
    /\ th \in Producers
    /\ tpc[th] = "locked"
    /\ lock = th
    /\ containers' = register(containers, tdone[th] + 1, tdone[th])
    /\ lock' = 0
    /\ tpc' = [tpc EXCEPT ![th] = "idle"]
    /\ tdone' = [tdone EXCEPT ![th] = @ + 1]
    /\ UNCHANGED seen
    /\ UNCHANGED <<policyVars, managerVars, adapterVars, auxVars, tasks, clock, rop, resp>>

\* list_containers: the entries copied under the lock;
\* results.append(len(containers))
TListLocked(th) ==
    /\ th = Lister
    /\ tpc[th] = "locked"
    /\ lock = th
    /\ seen' = seen \cup { { containers[id] : id \in list_containers(containers, FALSE) } }
    /\ lock' = 0
    /\ tpc' = [tpc EXCEPT ![th] = "idle"]
    /\ tdone' = [tdone EXCEPT ![th] = @ + 1]
    /\ UNCHANGED containers
    /\ UNCHANGED <<policyVars, managerVars, adapterVars, auxVars, tasks, clock, rop, resp>>

InitThreads ==
    /\ PolicyIdle /\ ManagerIdle /\ AdapterIdle /\ AuxIdle
    /\ containers = << >>
    /\ tasks = << >>
    /\ clock = 1
    /\ rop = [op |-> "", id |-> 0, ret |-> 0]
    /\ resp = NoResponse
    /\ lock = 0
    /\ tpc = [th \in Producers \cup {Lister} |-> "idle"]
    /\ tdone = [th \in Producers \cup {Lister} |-> 0]
    /\ seen = {}

NextThreads ==
    \/ \E th \in Producers \cup {Lister} : TLockAcquire(th)
    \/ \E th \in Producers : TRegisterLocked(th)
    \/ TListLocked(Lister)

SpecThreads == InitThreads /\ [][NextThreads]_vars

\* C13: once the N producers have each completed their K register calls,
\* interleaved in any way with each other and with the list calls, the
\* registry holds N*K entries.
C13_AllRegistrationsHeld ==
    (\A th \in Producers : tdone[th] = KRegisters)
       => Cardinality(DOMAIN containers) = NProducers * KRegisters

-----------------------------------------------------------------------------
(* monitoring/server.py: the GET handlers of the status server *)

DayTicks == 2       \* ticks per UTC day
MaxLines == 2       \* the log file on disk has up to MaxLines lines

\* Python's int() on a path segment or query value, given as its
\* characters: the number for a non-empty string of decimal digits,
\* ValueError (ok = FALSE) for the others
int(s) ==
    LET digit == [ch \in {"0", "1", "2", "3", "4", "5", "6", "7", "8", "9"} |->
                     CASE ch = "0" -> 0 [] ch = "1" -> 1 [] ch = "2" -> 2
                       [] ch = "3" -> 3 [] ch = "4" -> 4 [] ch = "5" -> 5
                       [] ch = "6" -> 6 [] ch = "7" -> 7 [] ch = "8" -> 8
                       [] OTHER -> 9]
        RECURSIVE value(_)
        value(x) == IF x = << >> THEN 0
                    ELSE 10 * value(SubSeq(x, 1, Len(x) - 1)) + digit[x[Len(x)]]
    IN  IF s = << >> \/ \E i \in 1..Len(s) : s[i] \notin DOMAIN digit
        THEN [ok |-> FALSE, value |-> 0]
        ELSE [ok |-> TRUE, value |-> value(s)]

\* _send_error: the JSON error envelope
send_error(req, code, error) ==
    [NoResponse EXCEPT !.req = req, !.code = code, !.error = error,
                       !.error_code = IF error = "Not Found" THEN "NOT_FOUND"
                                      ELSE "INTERNAL_SERVER_ERROR"]

\* _check_podman_health: the statuses it can return. PodmanManager defines
\* the methods listed and no health_check, so manager.health_check() raises
\* AttributeError and the except branch answers "unknown".
check_podman_health ==
    LET PodmanManagerMethods ==
            {"ensure_image_available", "create", "start", "stream_logs",
             "wait", "remove", "exec", "copy_to", "run"}
    IN  IF "health_check" \in PodmanManagerMethods
        THEN {"healthy", "unhealthy", "unknown"}
        ELSE {"unknown"}

\* _handle_status counting finished tasks whatever their status
completed_today_any_status(d, t) ==
    Cardinality({ id \in list_tasks(d, FALSE) :
                    /\ d[id].finished_at # None
                    /\ d[id].finished_at \div DayTicks = t \div DayTicks })

\* _handle_status: completed_today
completed_today(d, t) ==
    Cardinality({ id \in list_tasks(d, FALSE) :
                    /\ d[id].finished_at # None
                    /\ d[id].finished_at \div DayTicks = t \div DayTicks
                    /\ d[id].status = "completed" })

\* _handle_task_details
handle_task_details(d, task_id) ==
    IF task_id \notin DOMAIN d
    THEN send_error("task", 404, "Not Found")
    ELSE [NoResponse EXCEPT !.req = "task", !.code = 200, !.task_id = task_id,
                            !.task_status = d[task_id].status,
                            !.log_path = d[task_id].log_path]

\* _handle_task_logs, for a query that has the tail values given (none:
\* the default "100") and a readable log file of nlines lines, the i-th
\* being i. A ValueError of int() reaches do_GET, which answers 500.
handle_task_logs(d, task_id, tail, nlines) ==
    LET tail_lines == int(IF tail = << >> THEN <<"1", "0", "0">> ELSE tail[1])
        start == IF tail_lines.value = 0 THEN 0 ELSE nlines - tail_lines.value
    IN  IF task_id \notin DOMAIN d
        THEN send_error("logs", 404, "Not Found")
        ELSE IF ~tail_lines.ok
        THEN send_error("logs", 500, "Internal Server Error")
        ELSE IF d[task_id].log_path = ""
        THEN send_error("logs", 404, "Not Found")
        ELSE IF d[task_id].log_path # "task.log"
        THEN send_error("logs", 404, "Not Found")
        ELSE [NoResponse EXCEPT
                !.req = "logs", !.code = 200,
                !.lines = IF nlines > tail_lines.value
                          THEN [i \in 1..(nlines - start) |-> start + i]
                          ELSE [i \in 1..nlines |-> i]]

\* do_GET /api/v1/status -> _handle_status
GetStatus ==
    /\ containers' = cleanup_old_entries(containers, clock)
    /\ tasks' = cleanup_old_entries(tasks, clock)
    /\ \E health \in check_podman_health :
          resp' = [NoResponse EXCEPT
                     !.req = "status", !.code = 200,
                     !.status = IF health = "healthy" THEN "healthy" ELSE "degraded",
                     !.active_tasks = Cardinality(list_tasks(tasks', TRUE)),
                     !.tasks_completed_today = completed_today(tasks', clock)]
    /\ UNCHANGED <<clock, rop>>
    /\ UNCHANGED <<policyVars, managerVars, adapterVars, auxVars, threadVars>>

\* do_GET /api/v1/tasks/{seg}: a last segment "logs" sends int() to the
\* segment before it, "tasks"
GetTask(seg) ==
    /\ resp' = IF seg = <<"l", "o", "g", "s">> \/ ~int(seg).ok
               THEN send_error("task", 500, "Internal Server Error")
               ELSE handle_task_details(tasks, int(seg).value)
    /\ UNCHANGED <<containers, tasks, clock, rop>>
    /\ UNCHANGED <<policyVars, managerVars, adapterVars, auxVars, threadVars>>

\* do_GET /api/v1/tasks/{seg}/logs?tail=...
GetTaskLogs(seg, tail, nlines) ==
    /\ resp' = IF ~int(seg).ok
               THEN send_error("logs", 500, "Internal Server Error")
               ELSE handle_task_logs(tasks, int(seg).value, tail, nlines)
    /\ UNCHANGED <<containers, tasks, clock, rop>>
    /\ UNCHANGED <<policyVars, managerVars, adapterVars, auxVars, threadVars>>

\* {id} of the request paths: registered ids, an unknown one, no integers
PathSegments ==
    {<<"1">>, <<"2">>, <<"7">>, <<"a", "b", "c">>, <<"l", "o", "g", "s">>}

\* the values of tail in the query string, as parse_qs lists them
TailQueries ==
    {<< >>, << <<"0">> >>, << <<"1">> >>, << <<"2">> >>, << <<"3">> >>}

\* Requests to the server of a worker whose adapters register tasks and
\* set their status as time passes. Task 1 logs to a file that exists.
NextServer ==
    \/ \E id \in TaskIds :
          \E log_path \in (IF id = 1 THEN {"task.log"} ELSE {"", "gone.log"}) :
             TRegister(id, log_path)
    \/ \E id \in TaskIds, status \in TaskStatuses : TUpdateStatus(id, status)
    \/ RTick
    \/ GetStatus
    \/ \E seg \in PathSegments : GetTask(seg)
    \/ \E seg \in PathSegments, tail \in TailQueries, nlines \in 0..MaxLines :
          GetTaskLogs(seg, tail, nlines)

SpecServer == InitRegistry /\ [][NextServer]_vars

C18_StatusHealthy == resp.req = "status" => resp.status = "healthy"

\* C19: GET /api/v1/tasks/{id} answers 200 with the task's detail when {id}
\* is a registered task id, and 404 with the JSON error envelope for every
\* other {id}, a non-integer one included.
C19_TaskDetailsOr404 ==
    [][ \A seg \in PathSegments :
          GetTask(seg) =>
             IF int(seg).ok /\ int(seg).value \in DOMAIN tasks
             THEN /\ resp'.code = 200
                  /\ resp'.task_id = int(seg).value
                  /\ resp'.task_status = tasks[int(seg).value].status
             ELSE /\ resp'.code = 404
                  /\ resp'.error_code = "NOT_FOUND" ]_vars

\* C20: GET /api/v1/tasks/{id}/logs?tail=N answers with exactly the last
\* min(N, L) lines of the L-line log file, for every N >= 0 (N = 100 when
\* tail is not given), and with 404 when the task is unknown, has no log
\* path, or its file is missing.
C20_TailLines ==
    [][ \A seg \in {<<"1">>, <<"2">>, <<"7">>}, tail \in TailQueries,
           nlines \in 0..MaxLines :
          GetTaskLogs(seg, tail, nlines) =>
             LET id == int(seg).value
                 N == IF tail = << >> THEN 100 ELSE int(tail[1]).value
                 m == IF N < nlines THEN N ELSE nlines
             IN  IF id \notin DOMAIN tasks
                 THEN resp'.code = 404
                 ELSE IF tasks[id].log_path \in {"", "gone.log"}
                 THEN resp'.code = 404
                 ELSE /\ resp'.code = 200
                      /\ resp'.lines = [i \in 1..m |-> nlines - m + i] ]_vars

-----------------------------------------------------------------------------
(* container/podman_manager.py: stream_logs and its log pump                *)
(*                                                                         *)
(* The engine's log stream yields the chunks 1, 2, 3, ...; the reader      *)
(* thread puts them on the bounded queue, the writer thread takes them off *)
(* and hands them to the sink.  Every queue operation is one step.         *)

QueueSize == 2      \* Queue(maxsize=1024), scaled
MaxChunks == 4      \* chunks the log stream yields at most

\* stream_logs(handle, sink, follow) is called: _ensure_client and
\* containers.get run in the caller's thread, outside any try; when they
\* succeed the two daemon threads are started and the call returns.
PStreamLogs(outcome) ==
    /\ pump.call = "called"
    /\ pump' = IF outcome = "ok"
               THEN [pump EXCEPT !.call = "returned", !.rpc = "reading",
                                 !.wpc = "loop"]
               ELSE [pump EXCEPT !.call = "raised"]
    /\ UNCHANGED <<policyVars, managerVars, adapterVars, monitorVars>>
    /\ UNCHANGED <<pull, rm, conf, files, web, ex, rth, hnd, scm>>

\* reader: the stream yields the next chunk, ends, or raises.  A chunk is
\* enqueued with put_nowait unless the stop flag is set; a full queue sends
\* _enqueue to its except branch.  An error sets the stop flag; the end of
\* the stream does not.
RRead(event) ==
    /\ pump.rpc = "reading"
    /\ event = "chunk" => pump.emitted < MaxChunks
    /\ pump' = CASE event = "eof" -> [pump EXCEPT !.rpc = "done"]
                 [] event = "error" -> [pump EXCEPT !.rpc = "done", !.stop = TRUE]
                 [] OTHER ->
                      IF pump.stop
                      THEN [pump EXCEPT !.emitted = @ + 1, !.rpc = "done"]
                      ELSE IF Len(pump.queue) < QueueSize
                      THEN [pump EXCEPT !.emitted = @ + 1,
                                        !.queue = Append(@, pump.emitted + 1)]
                      ELSE [pump EXCEPT !.emitted = @ + 1, !.rpc = "full"]
    /\ UNCHANGED <<policyVars, managerVars, adapterVars, monitorVars>>
    /\ UNCHANGED <<pull, rm, conf, files, web, ex, rth, hnd, scm>>

\* _enqueue, except branch: q.get_nowait() drops the eldest queued chunk
\* (nothing, if the writer has emptied the queue meanwhile)
RDropOldest ==
    /\ pump.rpc = "full"
    /\ pump' = [pump EXCEPT !.rpc = "retry",
                            !.queue = IF @ = << >> THEN @ ELSE Tail(@)]
    /\ UNCHANGED <<policyVars, managerVars, adapterVars, monitorVars>>
    /\ UNCHANGED <<pull, rm, conf, files, web, ex, rth, hnd, scm>>

\* _enqueue, except branch: the second q.put_nowait(item); a queue full
\* again loses the chunk
RPutAgain ==
    /\ pump.rpc = "retry"
    /\ pump' = [pump EXCEPT !.rpc = "reading",
                            !.queue = IF Len(@) < QueueSize
                                      THEN Append(@, pump.emitted) ELSE @]
    /\ UNCHANGED <<policyVars, managerVars, adapterVars, monitorVars>>
    /\ UNCHANGED <<pull, rm, conf, files, web, ex, rth, hnd, scm>>

\* writer: while not stop_event.is_set() or not queue.empty():
\* queue.get(timeout=0.2).  An empty queue times out and the loop goes
\* round again, which changes nothing.
WGet ==
    /\ pump.wpc = "loop"
    /\ IF pump.stop /\ pump.queue = << >>
       THEN pump' = [pump EXCEPT !.wpc = "done"]
       ELSE /\ pump.queue # << >>
            /\ pump' = [pump EXCEPT !.wpc = "got", !.wcur = Head(pump.queue),
                                    !.queue = Tail(@)]
    /\ UNCHANGED <<policyVars, managerVars, adapterVars, monitorVars>>
    /\ UNCHANGED <<pull, rm, conf, files, web, ex, rth, hnd, scm>>

\* writer: sink.write_stdout(data); an error of the sink leaves the thread
\* through the finally and ends it
WWrite(ok) ==
    /\ pump.wpc = "got"
    /\ pump' = IF ok
               THEN [pump EXCEPT !.wpc = "loop", !.sink = Append(@, pump.wcur)]
               ELSE [pump EXCEPT !.wpc = "died"]
    /\ UNCHANGED <<policyVars, managerVars, adapterVars, monitorVars>>
    /\ UNCHANGED <<pull, rm, conf, files, web, ex, rth, hnd, scm>>

Reader == (\E event \in {"chunk", "eof", "error"} : RRead(event)) \/ RDropOldest \/ RPutAgain

Writer == WGet \/ (\E ok \in BOOLEAN : WWrite(ok))

\* One stream_logs call on a container whose log stream yields up to
\* MaxChunks chunks.
InitPump ==
    /\ PolicyIdle /\ ManagerIdle /\ AdapterIdle /\ MonitorIdle
    /\ pump = [call |-> "called", emitted |-> 0, queue |-> << >>, sink |-> << >>,
               stop |-> FALSE, rpc |-> "", wpc |-> "", wcur |-> 0]
    /\ pull = << >> /\ rm = << >> /\ conf = << >> /\ files = << >>
    /\ web = << >> /\ ex = << >>
    /\ rth = << >> /\ hnd = << >> /\ scm = << >>

SpecPump ==
    /\ InitPump
    /\ [][ \/ \E outcome \in {"ok", "raise"} : PStreamLogs(outcome)
           \/ \E event \in {"chunk", "eof", "error"} : RRead(event)
           \/ RDropOldest
           \/ RPutAgain
           \/ WGet
           \/ \E ok \in BOOLEAN : WWrite(ok) ]_vars

\* The two threads are scheduled fairly.
SpecPumpLive == SpecPump /\ WF_vars(Reader) /\ WF_vars(Writer)

\* C21: the reader never blocks, and what the sink received is an
\* order-preserving, duplicate-free subsequence of the chunks emitted that,
\* once the stream is over and the queue drained, holds at least the last
\* QueueSize chunks emitted.
C21_SinkHoldsLastChunks ==
    pump.call = "returned" =>
       /\ \A i, j \in 1..Len(pump.sink) :
             i < j => pump.sink[i] < pump.sink[j]
       /\ \A i \in 1..Len(pump.sink) : pump.sink[i] \in 1..pump.emitted
       /\ pump.rpc \in {"full", "retry"} => ENABLED Reader
       /\ (pump.rpc = "done" /\ pump.queue = << >> /\ pump.wpc \in {"loop", "done"}) =>
             \A c \in 1..pump.emitted :
                c > pump.emitted - QueueSize =>
                   \E i \in 1..Len(pump.sink) : pump.sink[i] = c

\* C22: stream_logs never raises through its caller.
C22_StreamLogsNeverRaises == pump.call # "raised"

\* C23: once the log stream has ended or the stop flag is set, both workers
\* terminate: the reader stops, and the writer leaves its loop after it
\* has drained the queue.
C23_WorkersTerminate ==
    (pump.call = "returned" /\ pump.rpc = "done")
       ~> (pump.wpc \in {"done", "died"})

-----------------------------------------------------------------------------
(* Image availability and pull (container/podman_manager.py)               *)

\* largest pull timeout (seconds) and longest pull attempt (seconds) drawn
MaxTimeout == 2
MaxPullSeconds == 2

\* sleep(1.0) between two pull attempts
sleep_seconds == 1

\* str.lower on the policy strings drawn
lower(s) ==
    CASE s = "Never" -> "never"
      [] s = "ALWAYS" -> "always"
      [] s = "If-Not-Present" -> "if-not-present"
      [] OTHER -> s

\* the value __init__ leaves in self._pull_policy
pull_policy(configured, pull_always) ==
    IF pull_always = "None"
    THEN lower(IF configured = "" THEN "if-not-present" ELSE configured)
    ELSE IF pull_always = "True" THEN "always" ELSE "if-not-present"

\* a manager that pulls only what is absent, whatever the policy
needs_pull_when_absent(policy, has_local) == ~has_local

\* ensure_image_available, past the "never" branch: is _pull_image called
needs_pull(policy, has_local) == policy = "always" \/ ~has_local

\* a manager that keeps the first engine error of the pull
first_exc(last_exc, exc) == IF last_exc = None THEN exc ELSE last_exc

\* except APIError as exc: last_exc = exc
last_exc_after(last_exc, exc) == exc

\* PodmanManager(pull_always=...) with the configured policy and pull timeout
PNew(configured, pull_always, timeout) ==
    /\ pull.pc = "new"
    /\ pull' = [pull EXCEPT !.pc = "ready",
                            !.policy = pull_policy(configured, pull_always),
                            !.timeout = timeout]
    /\ UNCHANGED <<policyVars, managerVars, adapterVars, monitorVars>>
    /\ UNCHANGED <<pump, rm, conf, files, web, ex, rth, hnd, scm>>

\* ensure_image_available up to its decision; present is what the engine's
\* image store holds, check the outcome of the calls that find it out
PEnsure(present, check) ==
    /\ pull.pc = "ready"
    /\ pull' =
         IF check = "no_client"
         THEN [pull EXCEPT !.pc = "raised", !.checked = FALSE,
                           !.raised = "Podman client not available"]
         ELSE IF check = "APIError"
         THEN [pull EXCEPT !.pc = "raised", !.checked = FALSE,
                           !.raised = "failed to check image"]
         ELSE IF pull.policy = "never"
         THEN IF ~present
              THEN [pull EXCEPT !.pc = "raised", !.checked = TRUE,
                                !.has_local = present,
                                !.raised = "image not present locally and pull policy is 'never'"]
              ELSE [pull EXCEPT !.pc = "returned", !.checked = TRUE,
                                !.has_local = present]
         ELSE IF needs_pull(pull.policy, present)
         THEN [pull EXCEPT !.pc = "pulling", !.checked = TRUE,
                           !.has_local = present, !.pulled = TRUE,
                           !.deadline = pull.clock + pull.timeout]
         ELSE [pull EXCEPT !.pc = "returned", !.checked = TRUE,
                           !.has_local = present]
    /\ UNCHANGED <<policyVars, managerVars, adapterVars, monitorVars>>
    /\ UNCHANGED <<pump, rm, conf, files, web, ex, rth, hnd, scm>>

\* one pass of _pull_image's loop up to the sleep: images.pull takes
\* seconds and either answers or raises APIError; then the deadline test
PAttempt(ok, seconds) ==
    /\ pull.pc = "pulling"
    /\ LET n == pull.attempts + 1
           t == pull.clock + seconds
           last == last_exc_after(pull.last_exc, n)
       IN  pull' =
             IF ok
             THEN [pull EXCEPT !.pc = "returned", !.attempts = n,
                               !.started = pull.clock, !.clock = t,
                               !.prev_failed = pull.failed]
             ELSE IF t >= pull.deadline
             THEN [pull EXCEPT !.pc = "raised", !.attempts = n,
                               !.started = pull.clock, !.clock = t,
                               !.prev_failed = pull.failed, !.failed = t,
                               !.last_exc = last,
                               !.raised = "timeout pulling image",
                               !.cause = last]
             ELSE [pull EXCEPT !.pc = "sleeping", !.attempts = n,
                               !.started = pull.clock, !.clock = t,
                               !.prev_failed = pull.failed, !.failed = t,
                               !.last_exc = last]
    /\ UNCHANGED <<policyVars, managerVars, adapterVars, monitorVars>>
    /\ UNCHANGED <<pump, rm, conf, files, web, ex, rth, hnd, scm>>

\* sleep(1.0)
PSleep ==
    /\ pull.pc = "sleeping"
    /\ pull' = [pull EXCEPT !.pc = "pulling",
                            !.clock = pull.clock + sleep_seconds]
    /\ UNCHANGED <<policyVars, managerVars, adapterVars, monitorVars>>
    /\ UNCHANGED <<pump, rm, conf, files, web, ex, rth, hnd, scm>>

NextPull ==
    \/ \E configured \in {"", "never", "Never", "if-not-present", "always", "ALWAYS"},
          pull_always \in {"None", "True", "False"},
          timeout \in 0..MaxTimeout : PNew(configured, pull_always, timeout)
    \/ \E present \in BOOLEAN, check \in {"ok", "APIError", "no_client"} :
          PEnsure(present, check)
    \/ \E ok \in BOOLEAN, seconds \in 0..MaxPullSeconds : PAttempt(ok, seconds)
    \/ PSleep

\* One manager is built and ensure_image_available is called on it once.
InitPull ==
    /\ PolicyIdle /\ ManagerIdle /\ AdapterIdle /\ MonitorIdle
    /\ pull = [pc |-> "new", policy |-> "", timeout |-> 0, checked |-> FALSE,
               has_local |-> FALSE, pulled |-> FALSE, clock |-> 1,
               deadline |-> 0, attempts |-> 0, started |-> 0,
               failed |-> None, prev_failed |-> None, last_exc |-> None,
               raised |-> "", cause |-> None]
    /\ pump = << >> /\ rm = << >> /\ conf = << >> /\ files = << >>
    /\ web = << >> /\ ex = << >>
    /\ rth = << >> /\ hnd = << >> /\ scm = << >>

SpecPull ==
    /\ InitPull
    /\ [][NextPull]_vars

\* Every engine call of the pull answers or raises, and the sleep ends.
SpecPullLive == SpecPull /\ WF_vars(NextPull)

\* C25: once the local check has answered, the policy decides: "never"
\* raises for an absent image and returns for a present one, pulling in
\* neither case; "if-not-present" pulls exactly when the image is absent;
\* "always" pulls whether the image is present or not.
C25_PullFollowsPolicy ==
    pull.checked =>
       /\ pull.policy = "never" =>
            /\ ~pull.pulled /\ pull.attempts = 0
            /\ ~pull.has_local =>
                 (pull.pc = "raised" /\
                  pull.raised = "image not present locally and pull policy is 'never'")
            /\ pull.has_local => pull.pc = "returned"
       /\ pull.policy = "if-not-present" => (pull.pulled <=> ~pull.has_local)
       /\ pull.policy = "always" => pull.pulled
       /\ ~pull.pulled => pull.attempts = 0
       /\ (pull.pulled /\ pull.pc \in {"returned", "raised"}) => pull.attempts >= 1

\* policy "always", the image is present locally, and it has been pulled
C25_Witness ==
    /\ pull.checked /\ pull.policy = "always" /\ pull.has_local
    /\ pull.pc = "returned" /\ pull.attempts = 1

\* what holds of _pull_image at every point of its loop
PullSafe ==
    /\ (pull.pulled /\ pull.pc = "returned") =>
          (pull.attempts >= 1 /\ pull.raised = "")
    /\ (pull.pulled /\ pull.pc = "raised") =>
          /\ pull.raised = "timeout pulling image"
          /\ pull.clock >= pull.deadline
          /\ pull.failed = pull.clock
          /\ pull.cause = pull.attempts
    /\ pull.pc \in {"pulling", "sleeping"} =>
          (pull.failed # None => pull.failed < pull.deadline)
    /\ pull.prev_failed # None =>
          (pull.prev_failed < pull.deadline /\
           pull.started = pull.prev_failed + sleep_seconds)

\* C26: a pull whose attempts fail with engine errors is retried one
\* second after each failure until an attempt succeeds, and the call then
\* returns, or until a failed attempt ends at or past the deadline, and the
\* call then raises the timeout error whose cause is the error of the last
\* attempt; no attempt follows a failed attempt that ended past the deadline;
\* and every pull ends in one of the two ways.
C26_PullTerminates ==
    /\ []PullSafe
    /\ (pull.pc = "pulling") ~> (pull.pc \in {"returned", "raised"})

\* three attempts failed one second apart, the last one ended past the
\* deadline, and the call raised the timeout error carrying its error
C26_Witness ==
    /\ pull.pc = "raised" /\ pull.pulled /\ pull.attempts = 3
    /\ pull.clock > pull.deadline
    /\ pull.cause = 3

-----------------------------------------------------------------------------
(* remove and _remove_container, call by call (container/podman_manager.py) *)

RmIds == {"c1", "c2", "c3"}

\* podman.errors: NotFound is a subclass of APIError
IsAPIError(exc) == exc \in {"APIError", "NotFound"}

\* a _remove_container that re-raises without the stop and forced remove
remove_container_no_fallback(eng, id, force, plain, stop, forced) ==
    IF id \notin eng
    THEN [engine |-> eng, exc |-> "NotFound", calls |-> << <<"get", "NotFound">> >>]
    ELSE [engine |-> IF plain = "APIError" THEN eng ELSE eng \ {id},
          exc |-> IF plain = "ok" THEN "" ELSE plain,
          calls |-> << <<"get", "ok">>,
                       <<IF force THEN "remove_force" ELSE "remove", plain>> >>]

\* _remove_container(container_id, force=force): the engine afterwards,
\* the exception that leaves it ("" for a normal return) and the engine
\* calls made.  plain, stop and forced are what container.remove(force=force),
\* container.stop and container.remove(force=True) answer; NotFound from a
\* call on a container obtained before means it has vanished meanwhile.
remove_container(eng, id, force, plain, stop, forced) ==
    IF id \notin eng
    THEN [engine |-> eng, exc |-> "NotFound", calls |-> << <<"get", "NotFound">> >>]
    ELSE IF plain = "ok"
    THEN [engine |-> eng \ {id}, exc |-> "",
          calls |-> << <<"get", "ok">>,
                       <<IF force THEN "remove_force" ELSE "remove", "ok">> >>]
    ELSE IF force
    THEN [engine |-> IF plain = "NotFound" THEN eng \ {id} ELSE eng,
          exc |-> plain,
          calls |-> << <<"get", "ok">>, <<"remove_force", plain>> >>]
    ELSE [engine |-> IF "NotFound" \in {plain, forced} \/ forced = "ok"
                     THEN eng \ {id} ELSE eng,
          exc |-> IF forced = "ok" THEN "" ELSE plain,
          calls |-> << <<"get", "ok">>, <<"remove", plain>>,
                       <<"stop", stop>>, <<"remove_force", forced>> >>]

\* remove's mapping of what _remove_container raised: NotFound is a normal
\* return, another APIError becomes ContainerError
remove_raises(exc, force) ==
    IF exc = "NotFound" \/ ~IsAPIError(exc)
    THEN NoError
    ELSE [type |-> "ContainerError",
          message |-> IF force THEN "failed to remove container (forced)"
                               ELSE "failed to remove container",
          cause |-> exc]

\* a container comes into being in the engine (create)
RmCreate(id) ==
    /\ id \notin rm.engine
    /\ rm' = [rm EXCEPT !.engine = rm.engine \cup {id}]
    /\ UNCHANGED <<policyVars, managerVars, adapterVars, monitorVars>>
    /\ UNCHANGED <<pump, pull, conf, files, web, ex, rth, hnd, scm>>

\* remove(handle, force): the whole call
RmRemove(id, force, plain, stop, forced) ==
    /\ plain = "NotFound" => (stop = "APIError" /\ forced = "NotFound")
    /\ LET r == remove_container(rm.engine, id, force, plain, stop, forced)
           e == remove_raises(r.exc, force)
       IN  rm' = [engine |-> r.engine, id |-> id, force |-> force,
                  had |-> id \in rm.engine, gone |-> id \notin r.engine,
                  calls |-> r.calls,
                  pc |-> IF e = NoError THEN "returned" ELSE "raised",
                  raised |-> e]
    /\ UNCHANGED <<policyVars, managerVars, adapterVars, monitorVars>>
    /\ UNCHANGED <<pump, pull, conf, files, web, ex, rth, hnd, scm>>

\* Containers are created and removed, with and without force, against an
\* engine whose calls may fail.
InitRemove ==
    /\ PolicyIdle /\ ManagerIdle /\ AdapterIdle /\ MonitorIdle
    /\ rm = [engine |-> {}, id |-> "", force |-> FALSE, had |-> FALSE,
             gone |-> FALSE, calls |-> << >>, pc |-> "", raised |-> NoError]
    /\ pump = << >> /\ pull = << >> /\ conf = << >> /\ files = << >>
    /\ web = << >> /\ ex = << >>
    /\ rth = << >> /\ hnd = << >> /\ scm = << >>

SpecRemove ==
    /\ InitRemove
    /\ [][ \/ \E id \in RmIds : RmCreate(id)
           \/ \E id \in RmIds, force \in BOOLEAN,
                 plain \in {"ok", "APIError", "NotFound"},
                 stop \in {"ok", "APIError"},
                 forced \in {"ok", "APIError", "NotFound"} :
                 RmRemove(id, force, plain, stop, forced) ]_vars

\* the outcome of the n-th engine call of the last remove, "" if not made
RmCall(n, name) ==
    IF n <= Len(rm.calls) /\ rm.calls[n][1] = name THEN rm.calls[n][2] ELSE ""

\* C27: remove without force whose plain remove fails goes on to a stop
\* and then a forced remove; it returns normally when the forced remove
\* succeeds and raises ContainerError only when that fails as well; remove
\* of a container the engine does not have returns normally, forced or not.
C27_RemoveFallsBackToForce ==
    rm.pc # "" =>
       /\ ~rm.had => (rm.pc = "returned" /\ rm.gone)
       /\ (rm.had /\ ~rm.force /\ RmCall(2, "remove") \notin {"", "ok"}) =>
            /\ Len(rm.calls) = 4
            /\ RmCall(3, "stop") # ""
            /\ RmCall(4, "remove_force") # ""
            /\ RmCall(4, "remove_force") = "ok" =>
                 (rm.pc = "returned" /\ rm.gone)
            /\ rm.pc = "raised" =>
                 (RmCall(4, "remove_force") # "ok" /\
                  rm.raised.type = "ContainerError")
       /\ (rm.had /\ RmCall(2, IF rm.force THEN "remove_force" ELSE "remove") = "ok") =>
            (rm.pc = "returned" /\ Len(rm.calls) = 2 /\ rm.gone)
       /\ rm.pc = "returned" => rm.raised = NoError

\* an unforced remove whose plain remove failed, whose stop failed too, and
\* whose forced remove succeeded: the call returned and the container is gone
C27_Witness ==
    /\ rm.pc = "returned" /\ rm.had /\ ~rm.force
    /\ rm.calls = << <<"get", "ok">>, <<"remove", "APIError">>,
                     <<"stop", "APIError">>, <<"remove_force", "ok">> >>
    /\ rm.gone

-----------------------------------------------------------------------------
(* The configuration surface (config.py)                                   *)
(*                                                                         *)
(* A value is a record: a string (t = "str") or an integer (t = "int").    *)
(* A source is a function from the option names it defines to values.      *)

StrV(s) == [t |-> "str", s |-> s, n |-> 0]
IntV(n) == [t |-> "int", s |-> "", n |-> n]

\* the options looked up, with the converter and default their accessors
\* pass: adjutant_image_pull_policy and adjutant_policy_cache_ttl
Options == {"image_pull_policy", "policy_cache_ttl"}
ConverterOf(key) == IF key = "policy_cache_ttl" THEN "int" ELSE "None"
DefaultOf(key) == IF key = "policy_cache_ttl" THEN IntV(300) ELSE StrV("if-not-present")

\* the strings a source may hold for an option
StringsOf(key) ==
    IF key = "policy_cache_ttl" THEN {StrV("900"), StrV("x")}
    ELSE {StrV("always"), StrV("never")}

\* the characters of the strings drawn
chars(s) == IF s = "900" THEN <<"9", "0", "0">> ELSE <<s>>

\* the sources: partial functions on Options
SourcesOver(vals(_)) ==
    UNION { [D -> UNION { vals(k) : k \in D }] : D \in SUBSET Options }
StringSources ==
    { f \in SourcesOver(StringsOf) : \A k \in DOMAIN f : f[k] \in StringsOf(k) }

\* _options and _config while they are None
NoDict == [set |-> FALSE, dict |-> << >>]

\* no lookup made since the sources last changed
NoLookup == [call |-> "", key |-> "", result |-> StrV("")]

\* try: return converter(value) / except (ValueError, TypeError): warn,
\* then return value: the converted value, or the raw one
convert(value, converter) ==
    IF converter = "int" /\ value.t = "str"
    THEN LET r == int(chars(value.s))
         IN  IF r.ok THEN IntV(r.value) ELSE value
    ELSE value

\* _parse_config_file: the file is not read, the result is the empty dict
parse_config_file(file) == << >>

\* _get_config: the cached dict, parsed on first use
get_config(config, file) ==
    IF ~config.set THEN [set |-> TRUE, dict |-> parse_config_file(file)]
    ELSE config

\* _get_config_value(key, default, env_var, converter) on the module state c
get_config_value(c, key, default, converter) ==
    IF key \in DOMAIN c.env
    THEN convert(c.env[key], converter)
    ELSE IF c.options.set /\ key \in DOMAIN c.options.dict
    THEN convert(c.options.dict[key], converter)
    ELSE LET config == get_config(c.config, c.file).dict
         IN  IF key \in DOMAIN config THEN convert(config[key], converter)
             ELSE default

\* os.environ[KOJI_ADJUTANT_<NAME>] = value
CSetenv(key, value) ==
    /\ conf' = [conf EXCEPT !.env = [k \in DOMAIN conf.env \cup {key} |->
                                        IF k = key THEN value ELSE conf.env[k]],
                            !.last = NoLookup]
    /\ UNCHANGED <<policyVars, managerVars, adapterVars, monitorVars>>
    /\ UNCHANGED <<pump, pull, rm, files, web, ex, rth, hnd, scm>>

\* del os.environ[KOJI_ADJUTANT_<NAME>]
CDelenv(key) ==
    /\ key \in DOMAIN conf.env
    /\ conf' = [conf EXCEPT !.env = [k \in DOMAIN conf.env \ {key} |-> conf.env[k]],
                            !.last = NoLookup]
    /\ UNCHANGED <<policyVars, managerVars, adapterVars, monitorVars>>
    /\ UNCHANGED <<pump, pull, rm, files, web, ex, rth, hnd, scm>>

\* the [adjutant] section of the configuration file is written
CWriteFile(section) ==
    /\ conf.file # section
    /\ conf' = [conf EXCEPT !.file = section, !.last = NoLookup]
    /\ UNCHANGED <<policyVars, managerVars, adapterVars, monitorVars>>
    /\ UNCHANGED <<pump, pull, rm, files, web, ex, rth, hnd, scm>>

\* initialize(options)
CInitialize(fields) ==
    /\ conf' = [conf EXCEPT !.options = [set |-> TRUE, dict |-> fields],
                            !.last = NoLookup]
    /\ UNCHANGED <<policyVars, managerVars, adapterVars, monitorVars>>
    /\ UNCHANGED <<pump, pull, rm, files, web, ex, rth, hnd, scm>>

\* reset_config()
CReset ==
    /\ conf' = [conf EXCEPT !.options = NoDict, !.config = NoDict,
                            !.last = [call |-> "reset_config", key |-> "",
                                      result |-> StrV("")]]
    /\ UNCHANGED <<policyVars, managerVars, adapterVars, monitorVars>>
    /\ UNCHANGED <<pump, pull, rm, files, web, ex, rth, hnd, scm>>

\* an accessor: _get_config_value for one option
CGet(key) ==
    /\ conf' = [conf EXCEPT
                  !.config = IF key \in DOMAIN conf.env
                                \/ (conf.options.set /\
                                    key \in DOMAIN conf.options.dict)
                             THEN conf.config
                             ELSE get_config(conf.config, conf.file),
                  !.last = [call |-> "get", key |-> key,
                            result |-> get_config_value(conf, key, DefaultOf(key),
                                                        ConverterOf(key))]]
    /\ UNCHANGED <<policyVars, managerVars, adapterVars, monitorVars>>
    /\ UNCHANGED <<pump, pull, rm, files, web, ex, rth, hnd, scm>>

\* The process environment, the options object and the configuration file
\* change between lookups.
InitConfig ==
    /\ PolicyIdle /\ ManagerIdle /\ AdapterIdle /\ MonitorIdle
    /\ conf = [env |-> << >>, options |-> NoDict, file |-> << >>,
               config |-> NoDict,
               last |-> NoLookup]
    /\ pump = << >> /\ pull = << >> /\ rm = << >> /\ files = << >>
    /\ web = << >> /\ ex = << >>
    /\ rth = << >> /\ hnd = << >> /\ scm = << >>

SpecConfig ==
    /\ InitConfig
    /\ [][ \/ \E key \in Options : \E value \in StringsOf(key) : CSetenv(key, value)
           \/ \E key \in Options : CDelenv(key)
           \/ \E section \in StringSources : CWriteFile(section)
           \/ \E fields \in StringSources \cup {[policy_cache_ttl |-> IntV(7)]} :
                 CInitialize(fields)
           \/ CReset
           \/ \E key \in Options : CGet(key) ]_vars

\* the value the priority chain names for an option: that of the first
\* source defining it among environment, options object, configuration
\* file, coerced by the option's converter where it applies, else the default
ChainValue(key) ==
    IF key \in DOMAIN conf.env THEN convert(conf.env[key], ConverterOf(key))
    ELSE IF conf.options.set /\ key \in DOMAIN conf.options.dict
    THEN convert(conf.options.dict[key], ConverterOf(key))
    ELSE IF key \in DOMAIN conf.file THEN convert(conf.file[key], ConverterOf(key))
    ELSE DefaultOf(key)

\* C28: a lookup resolves to the value of the highest-priority source that
\* defines the option: environment variable, then options object, then
\* configuration file, then default; and reset_config() leaves no options
\* object installed.
C28_HighestPrioritySourceWins ==
    /\ conf.last.call = "get" => conf.last.result = ChainValue(conf.last.key)
    /\ conf.last.call = "reset_config" => ~conf.options.set

-----------------------------------------------------------------------------
(* Wrapped, unwrapped and JSON-encoded policies (policy/resolver.py)       *)

\* the shapes in which a hub can deliver the policy {rules: R}
FormsOf(policy) ==
    { policy, Wrapped(policy.rules), JsonOf(policy), JsonOf(Wrapped(policy.rules)) }

\* the hub extra holding the same rules as the plain dict {rules: R}
Unwrapped(extra) ==
    IF extra.kind = "absent" THEN extra ELSE PolicyDict(extra.rules)

\* the policies delivered: every list of up to MaxRules rules, one rule of
\* each type to draw from
WrappedPolicies ==
    { PolicyDict(r) :
        r \in SeqsUpTo({ TagArchRule("f39", "x86_64", "TA"), TagRule("f39", "T"),
                         TaskTypeRule("buildArch", "B"), DefaultRule("D") },
                       MaxRules) }

\* resolve_image calls on resolvers whose hub delivers a policy, in the
\* tag extra or in the build config extra, in any of its shapes
InitWrapped ==
    /\ \E policy \in WrappedPolicies :
          \/ InitResolver(FormsOf(policy), {Absent}, {TRUE})
          \/ (Len(policy.rules) <= 1 /\ InitResolver({Absent}, FormsOf(policy), {TRUE}))
    /\ ManagerIdle /\ AdapterIdle /\ MonitorIdle /\ AuxIdle

\* the hub answers every call it gets
NextWrapped ==
    /\ calls < MaxRuns
    /\ \E t \in Tags, a \in Archs, k \in TaskTypes : Resolve(t, a, k, FALSE, FALSE)

SpecWrapped == InitWrapped /\ [][NextWrapped]_vars

\* C29: a resolve_image call against a hub that delivers the policy
\* wrapped under adjutant_image_policy, or as the JSON text of the wrapped
\* or of the plain dict, returns the image (and leaves the cache) that the
\* same call returns against the hub holding the plain dict {rules: R}.
C29_WrappedEqualsUnwrapped ==
    [][\A t \in Tags, a \in Archs, k \in TaskTypes :
         Resolve(t, a, k, FALSE, FALSE) =>
            LET plain == resolve_image(cache, now, policy_enabled,
                                       Unwrapped(hubTag), Unwrapped(hubConfig),
                                       t, a, k, FALSE, FALSE)
            IN  /\ lastCall'.image = plain.image
                /\ cache' = plain.cache]_vars

\* a hub whose tag extra is the JSON text of the wrapped policy has
\* answered a call with an image of the policy
C29_Witness ==
    /\ hubTag.kind = "str_wrapped"
    /\ Len(hubTag.rules) >= 2
    /\ lastCall.n >= 1
    /\ lastCall.image \notin {NoImage, ConfigDefault}
    /\ lastCall.fetched

-----------------------------------------------------------------------------
(* buildArch: collecting the results (task_adapters/buildarch.py)          *)

\* most entries in the result directory
MaxFiles == 3

\* File names, given as their parts between dots: <<"a", "src", "rpm">>
\* is a.src.rpm and <<"rpm">> is the name rpm.
FileNames ==
    { <<"a", "src", "rpm">>, <<"src", "rpm">>, <<"a", "x86_64", "rpm">>,
      <<"", "rpm">>, <<"rpm">>, <<"build", "log">>, <<"a", "rpm", "log">>,
      <<"notes", "txt">> }

\* str.endswith of a suffix that starts with a dot, given as its parts:
\* <<"src", "rpm">> is ".src.rpm".  The dot before the first part of the
\* suffix has to be in the name, so the name has at least one more part.
endswith(name, suffix) ==
    /\ Len(name) > Len(suffix)
    /\ SubSeq(name, Len(name) - Len(suffix) + 1, Len(name)) = suffix

\* a classification that tests .rpm before .src.rpm
classify_rpm_first(name) ==
    IF endswith(name, <<"rpm">>) THEN "rpms"
    ELSE IF endswith(name, <<"src", "rpm">>) THEN "srpms"
    ELSE IF endswith(name, <<"log">>) THEN "logs"
    ELSE ""

\* the if / elif chain on the name: the list the file is appended to
classify(name) ==
    IF endswith(name, <<"src", "rpm">>) THEN "srpms"
    ELSE IF endswith(name, <<"rpm">>) THEN "rpms"
    ELSE IF endswith(name, <<"log">>) THEN "logs"
    ELSE ""

\* f"{upload_base}/{name}" with upload_base = f"work/{ctx.task_id}/result"
upload_path(task_id, name) == <<"work", task_id, "result", name>>

\* the loop over result_dir.iterdir(): the list of the given class, the
\* entries taken in some order
RECURSIVE collect(_, _, _, _)
collect(dir, names, task_id, class) ==
    IF names = {} THEN << >>
    ELSE LET name == CHOOSE n \in names : TRUE
             rest == collect(dir, names \ {name}, task_id, class)
         IN  IF dir[name] = "file" /\ classify(name) = class
             THEN <<upload_path(task_id, name)>> \o rest
             ELSE rest

\* the result dict of a run that reached the collection
result_dict(dir, task_id, keep_srpm) ==
    [rpms |-> collect(dir, DOMAIN dir, task_id, "rpms"),
     srpms |-> IF keep_srpm THEN collect(dir, DOMAIN dir, task_id, "srpms") ELSE << >>,
     logs |-> collect(dir, DOMAIN dir, task_id, "logs"),
     brootid |-> task_id]

\* the build leaves an entry, a file or a directory, in <work>/result
FWrite(name, kind) ==
    /\ files.pc = "building"
    /\ name \notin DOMAIN files.dir
    /\ Cardinality(DOMAIN files.dir) < MaxFiles
    /\ files' = [files EXCEPT !.dir = [n \in DOMAIN files.dir \cup {name} |->
                                          IF n = name THEN kind ELSE files.dir[n]]]
    /\ UNCHANGED <<policyVars, managerVars, adapterVars, monitorVars>>
    /\ UNCHANGED <<pump, pull, rm, conf, web, ex, rth, hnd, scm>>

\* the end of run: the container execution raised (the failure result is
\* returned) or ended with an exit code (the results are collected)
FReturn(outcome, keep_srpm) ==
    /\ files.pc = "building"
    /\ files' = [files EXCEPT
                   !.pc = IF outcome = "raise" THEN "failed" ELSE "collected",
                   !.keep_srpm = keep_srpm,
                   !.exit_code = IF outcome = "exit0" THEN 0 ELSE 1,
                   !.result = IF outcome = "raise"
                              THEN [rpms |-> << >>, srpms |-> << >>,
                                    logs |-> << >>, brootid |-> 0]
                              ELSE result_dict(files.dir, files.task_id, keep_srpm)]
    /\ UNCHANGED <<policyVars, managerVars, adapterVars, monitorVars>>
    /\ UNCHANGED <<pump, pull, rm, conf, web, ex, rth, hnd, scm>>

\* One buildArch run: the build writes its results, then run returns.
InitCollect ==
    /\ PolicyIdle /\ ManagerIdle /\ AdapterIdle /\ MonitorIdle
    /\ \E task_id \in TaskIds :
          files = [pc |-> "building", task_id |-> task_id, dir |-> << >>,
                   keep_srpm |-> FALSE, exit_code |-> 0,
                   result |-> [rpms |-> << >>, srpms |-> << >>, logs |-> << >>,
                               brootid |-> 0]]
    /\ pump = << >> /\ pull = << >> /\ rm = << >> /\ conf = << >>
    /\ web = << >> /\ ex = << >>
    /\ rth = << >> /\ hnd = << >> /\ scm = << >>

SpecCollect ==
    /\ InitCollect
    /\ [][ \/ \E name \in FileNames, kind \in {"file", "dir"} : FWrite(name, kind)
           \/ \E outcome \in {"exit0", "exit1", "raise"}, keep_srpm \in BOOLEAN :
                 FReturn(outcome, keep_srpm) ]_vars

\* the files of the result directory whose name satisfies P, as paths
PathsWhere(P(_)) ==
    { upload_path(files.task_id, n) :
        n \in { x \in DOMAIN files.dir : files.dir[x] = "file" /\ P(x) } }
IsRpm(n) == endswith(n, <<"rpm">>) /\ ~endswith(n, <<"src", "rpm">>)
IsSrpm(n) == endswith(n, <<"src", "rpm">>)
IsLog(n) == endswith(n, <<"log">>)
Elems(list) == { list[i] : i \in 1..Len(list) }

\* C30: the result of a run that collected: rpms are exactly the files
\* ending .rpm but not .src.rpm, logs exactly the files ending .log, srpms
\* exactly the files ending .src.rpm if keep_srpm and empty if not; every
\* path is work/<task_id>/result/<name>; no file is in two lists.
C30_ResultClassification ==
    files.pc = "collected" =>
       LET r == files.result
       IN  /\ Elems(r.rpms) = PathsWhere(IsRpm)
           /\ Elems(r.logs) = PathsWhere(IsLog)
           /\ Elems(r.srpms) = IF files.keep_srpm THEN PathsWhere(IsSrpm) ELSE {}
           /\ \A l \in {r.rpms, r.srpms, r.logs} :
                 /\ Cardinality(Elems(l)) = Len(l)
                 /\ \A p \in Elems(l) :
                       /\ Len(p) = 4
                       /\ p[1] = "work" /\ p[2] = files.task_id /\ p[3] = "result"
                       /\ p[4] \in DOMAIN files.dir
           /\ Elems(r.rpms) \cap Elems(r.srpms) = {}
           /\ Elems(r.rpms) \cap Elems(r.logs) = {}
           /\ Elems(r.srpms) \cap Elems(r.logs) = {}

\* a.src.rpm, a.x86_64.rpm and build.log were collected with keep_srpm set,
\* one file in each list
C30_Witness ==
    /\ files.pc = "collected" /\ files.keep_srpm
    /\ DOMAIN files.dir = { <<"a", "src", "rpm">>, <<"a", "x86_64", "rpm">>,
                            <<"build", "log">> }
    /\ \A n \in DOMAIN files.dir : files.dir[n] = "file"
    /\ Len(files.result.rpms) = 1 /\ Len(files.result.srpms) = 1
    /\ Len(files.result.logs) = 1

-----------------------------------------------------------------------------
(* Parameter checks of the adapters' run methods *)

-----------------------------------------------------------------------------
(* GET requests that reach the last branch of do_GET (monitoring/server.py) *)

MaxRequests == 2

\* request paths, as their segments: "/api/v1/unknown" is <<"api","v1","unknown">>
RequestPaths ==
    { <<"api", "v1", "status">>, <<"api", "v1", "containers">>,
      <<"api", "v1", "containers", "c1">>, <<"api", "v1", "tasks">>,
      <<"api", "v1", "tasks", "7">>, <<"api", "v1", "unknown">>,
      <<"api", "v1">>, <<"api", "v2", "status">>, <<"nope">>,
      << >>, <<"tasks", "7">>, <<"tasks", "x">> }

\* path.startswith(prefix + "/"), on segments
startswith(path, prefix) ==
    /\ Len(path) > Len(prefix)
    /\ SubSeq(path, 1, Len(prefix)) = prefix

\* the branch of do_GET's if / elif chain a path takes
route(path) ==
    IF path = <<"api", "v1", "status">> THEN "status"
    ELSE IF path = <<"api", "v1", "containers">> THEN "containers"
    ELSE IF startswith(path, <<"api", "v1", "containers">>) THEN "container"
    ELSE IF path = <<"api", "v1", "tasks">> THEN "tasks"
    ELSE IF startswith(path, <<"api", "v1", "tasks">>) THEN "task"
    ELSE "other"

\* _send_json: the status, a JSON body, the CORS header
send_json(status_code, keys) ==
    [status |-> status_code, content_type |-> "application/json",
     cors |-> TRUE, keys |-> keys]

\* _send_error: the JSON error envelope
send_json_error(status_code) ==
    send_json(status_code, {"error", "error_code", "message"})

\* the routes of the dashboard application: "/", "/tasks/<int>", "/containers/<string>"
web_bp_matches(path) ==
    \/ path = << >>
    \/ Len(path) = 2 /\ path[1] = "tasks" /\ int(<<path[2]>>).ok
    \/ Len(path) = 2 /\ path[1] = "containers"

\* _handle_flask_request: the status, headers and body of the dashboard
\* application are forwarded as they are; it answers a path without a route
\* with its own 404 page
handle_flask_request(path) ==
    [status |-> IF web_bp_matches(path) THEN 200 ELSE 404,
     content_type |-> "text/html", cors |-> FALSE, keys |-> {}]

\* the last branch of do_GET
do_GET_other(path, FLASK_AVAILABLE, flask_app) ==
    IF FLASK_AVAILABLE /\ flask_app
    THEN handle_flask_request(path)
    ELSE send_json_error(404)

\* MonitoringServer.__init__: the dashboard application is created when the
\* web package imports and create_app succeeds
ServerConfigs ==
    { c \in [FLASK_AVAILABLE : BOOLEAN, flask_app : BOOLEAN] :
         c.flask_app => c.FLASK_AVAILABLE }

GetOther(path) ==
    /\ Len(web.requests) < MaxRequests
    /\ route(path) = "other"
    /\ web' = [web EXCEPT !.requests = Append(@,
                  [path |-> path,
                   resp |-> do_GET_other(path, web.FLASK_AVAILABLE,
                                         web.flask_app)])]
    /\ UNCHANGED <<policyVars, managerVars, adapterVars, monitorVars>>
    /\ UNCHANGED <<pump, pull, rm, conf, files, ex, rth, hnd, scm>>

NextWeb == \E path \in RequestPaths : GetOther(path)

InitWeb ==
    /\ PolicyIdle /\ ManagerIdle /\ AdapterIdle /\ MonitorIdle
    /\ \E c \in ServerConfigs :
          web = [FLASK_AVAILABLE |-> c.FLASK_AVAILABLE,
                 flask_app |-> c.flask_app, requests |-> << >>]
    /\ pump = << >> /\ pull = << >> /\ rm = << >> /\ conf = << >>
    /\ files = << >> /\ ex = << >>
    /\ rth = << >> /\ hnd = << >> /\ scm = << >>

SpecWeb == InitWeb /\ [][NextWeb]_vars

\* C32: a GET for a path that is neither an API endpoint nor a page of the
\* dashboard is answered with status 404, the JSON error envelope {error,
\* error_code, message} and the header Access-Control-Allow-Origin: *,
\* whether or not the dashboard application is loaded.
C32_UnknownPath404Envelope ==
    \A i \in 1..Len(web.requests) :
       LET r == web.requests[i] IN
       ~web_bp_matches(r.path) =>
          /\ r.resp.status = 404
          /\ r.resp.content_type = "application/json"
          /\ r.resp.keys = {"error", "error_code", "message"}
          /\ r.resp.cors

-----------------------------------------------------------------------------
(* Order of the engine operations of an exec-pattern run *)

\* the positions of the calls of one operation in the log of the run
OpIdx(op) == { i \in DOMAIN alog : alog[i].op = op }

\* the run took the exec pattern
InExecPattern ==
    /\ apc \notin {"idle", "raised"}
    /\ aspec # ""
    /\ ExecPattern(actx, aspec)

\* the run has read the result directory on the host
ResultDirRead ==
    \/ apc = "collect"
    \/ apc = "returned" /\ aresult \in {"no srpm", "name mismatch", "result"}

\* C33: in an exec-pattern run the operations on the handle occur as create,
\* start, copy_to and exec calls, remove: each is called at most once except
\* copy_to and exec, start follows a create that returned, every copy_to and
\* exec follows a start that returned and precedes remove, and the result
\* directory is read on the host only after remove was called.
C33_OperationOrder ==
    InExecPattern =>
       /\ \A op \in {"create", "start", "remove"} : Cardinality(OpIdx(op)) <= 1
       /\ \A i \in OpIdx("start") :
             \E j \in OpIdx("create") : j < i /\ alog[j].res = "ok"
       /\ \A i \in DOMAIN alog :
             InContainer(alog[i]) =>
                /\ \E j \in OpIdx("start") : j < i /\ alog[j].res = "ok"
                /\ \A j \in OpIdx("remove") : i < j
       /\ \A i \in OpIdx("remove") : \E j \in OpIdx("create") : j < i
       /\ ResultDirRead => OpIdx("remove") # {}

C33_Witness ==
    /\ InExecPattern
    /\ actx.adapter = "buildSRPMFromSCM"
    /\ apc = "returned"
    /\ aresult = "result"
    /\ \E i \in OpIdx("remove") : \E j \in OpIdx("exec") : j < i
    /\ \E i \in OpIdx("copy_to") : \E j \in OpIdx("start") : j < i

-----------------------------------------------------------------------------
(* PolicyResolver used by several threads (policy/resolver.py) *)

NResolverThreads == 2   \* threads sharing one PolicyResolver
MaxThreadCalls == 2     \* calls each thread makes

ResolverThreads == 1..NResolverThreads

NoEntry == [policy |-> Absent, cached_at |-> 0, ttl_seconds |-> 0]

\* a thread outside any call
ThreadIdle ==
    [pc |-> "idle", tag_name |-> "", arch |-> "", task_type |-> "",
     cached |-> NoEntry, keys |-> {}, n |-> 0, raised |-> FALSE, image |-> NoImage]

\* the call of thread th returns image
Returned(th, image) ==
    [rth EXCEPT ![th].pc = "idle", ![th].n = @ + 1, ![th].raised = FALSE,
                ![th].image = image, ![th].cached = NoEntry, ![th].keys = {}]

\* the call of thread th ends in KeyError
Raised(th) ==
    [rth EXCEPT ![th].pc = "idle", ![th].n = @ + 1, ![th].raised = TRUE,
                ![th].image = NoImage, ![th].cached = NoEntry, ![th].keys = {}]

ResolverFrame ==
    /\ UNCHANGED <<hubTag, hubConfig, policy_enabled, now, calls, lastCall,
                   resolves, hubCalls, hubErrored, evicted>>
    /\ UNCHANGED <<managerVars, adapterVars, monitorVars>>
    /\ UNCHANGED <<pump, pull, rm, conf, files, web, ex, hnd, scm>>

\* a thread calls resolve_image or invalidate_cache ("" for None)
TCall(th, op, tag_name, arch, task_type) ==
    /\ rth[th].pc = "idle"
    /\ rth[th].n < MaxThreadCalls
    /\ rth' = [rth EXCEPT ![th].pc = op, ![th].tag_name = tag_name,
                          ![th].arch = arch, ![th].task_type = task_type]
    /\ UNCHANGED cache
    /\ ResolverFrame

\* _get_cached_policy, up to its del: cached = self._cache.get(cache_key);
\* a valid entry is evaluated, an expired one is to be deleted
TGetCached(th) ==
    /\ rth[th].pc = "resolve_image"
    /\ LET t == rth[th]
           cache_key == <<t.tag_name, t.arch>>
           present == cache_key \in DOMAIN cache
           image == IF present
                    THEN evaluate_policy(cache[cache_key].policy, t.tag_name,
                                         t.arch, t.task_type)
                    ELSE NoImage
       IN  rth' = IF present /\ ~is_valid(cache[cache_key], now)
                  THEN [rth EXCEPT ![th].pc = "del", ![th].cached = cache[cache_key]]
                  ELSE IF present /\ AnsweredFromCache(TRUE, image)
                  THEN Returned(th, image)
                  ELSE [rth EXCEPT ![th].pc = "fetch"]
    /\ UNCHANGED cache
    /\ ResolverFrame

\* del self._cache[cache_key]: KeyError when the key is no longer there.
\* _get_cached_policy (316), invalidate_cache (340, 346)
TDel(th) ==
    /\ rth[th].pc \in {"del", "invalidate_del"}
    /\ LET t == rth[th]
           cache_key == <<t.tag_name, t.arch>>
       IN  IF cache_key \in DOMAIN cache
           THEN /\ cache' = DictDel(cache, cache_key)
                /\ rth' = IF t.pc = "del"
                          THEN [rth EXCEPT ![th].pc = "fetch", ![th].cached = NoEntry]
                          ELSE Returned(th, NoImage)
           ELSE /\ rth' = Raised(th)
                /\ UNCHANGED cache
    /\ ResolverFrame

\* the rest of resolve_image: policy disabled, or the hub is asked and its
\* policy cached and evaluated
TFetch(th) ==
    /\ rth[th].pc = "fetch"
    /\ LET t == rth[th]
           cache_key == <<t.tag_name, t.arch>>
           fetched == fetch_policy(hubTag, hubConfig, FALSE, FALSE)
           image == evaluate_policy(fetched.policy, t.tag_name, t.arch, t.task_type)
       IN  IF ~policy_enabled \/ fetched.policy.kind = "absent"
           THEN /\ rth' = Returned(th, ConfigDefault)
                /\ UNCHANGED cache
           ELSE /\ cache' = cache_policy(cache, cache_key, fetched.policy, now)
                /\ rth' = Returned(th, IF image # NoImage THEN image
                                       ELSE ConfigDefault)
    /\ ResolverFrame

\* invalidate_cache, up to its del statements: clear(), the list of the
\* tag's keys, or the membership test of one key
TInvalidate(th) ==
    /\ rth[th].pc = "invalidate_cache"
    /\ LET t == rth[th]
           cache_key == <<t.tag_name, t.arch>>
           keys_to_remove == { k \in DOMAIN cache : k[1] = t.tag_name }
       IN  IF t.tag_name = ""
           THEN /\ cache' = << >>
                /\ rth' = Returned(th, NoImage)
           ELSE /\ UNCHANGED cache
                /\ rth' = IF t.arch = ""
                          THEN IF keys_to_remove = {} THEN Returned(th, NoImage)
                               ELSE [rth EXCEPT ![th].pc = "invalidate_loop",
                                                ![th].keys = keys_to_remove]
                          ELSE IF cache_key \in DOMAIN cache
                          THEN [rth EXCEPT ![th].pc = "invalidate_del"]
                          ELSE Returned(th, NoImage)
    /\ ResolverFrame

\* for key in keys_to_remove: del self._cache[key]
TInvalidateLoop(th) ==
    /\ rth[th].pc = "invalidate_loop"
    /\ \E key \in rth[th].keys :
          IF key \in DOMAIN cache
          THEN /\ cache' = DictDel(cache, key)
               /\ rth' = IF rth[th].keys = {key} THEN Returned(th, NoImage)
                         ELSE [rth EXCEPT ![th].keys = @ \ {key}]
          ELSE /\ rth' = Raised(th)
               /\ UNCHANGED cache
    /\ ResolverFrame

\* the clock of the shared resolver advances
TTick ==
    /\ now < MaxTime
    /\ now' = now + 1
    /\ UNCHANGED <<hubTag, hubConfig, policy_enabled, cache, calls, lastCall,
                   resolves, hubCalls, hubErrored, evicted>>
    /\ UNCHANGED <<managerVars, adapterVars, monitorVars, auxVars>>

TCallSome(th) ==
    \/ \E a \in Archs, k \in TaskTypes : TCall(th, "resolve_image", "f39", a, k)
    \/ \E t \in {"f39", ""}, a \in Archs \cup {""} :
          (t = "" => a = "") /\ TCall(th, "invalidate_cache", t, a, "")

NextResolverThreads ==
    \/ TTick
    \/ \E th \in ResolverThreads :
          \/ TCallSome(th)
          \/ TGetCached(th)
          \/ TDel(th)
          \/ TFetch(th)
          \/ TInvalidate(th)
          \/ TInvalidateLoop(th)

InitResolverThreads ==
    /\ InitResolver({PolicyDict(<< TagRule("f39", "T") >>),
                     PolicyDict(<< TaskTypeRule("buildArch", "B") >>)},
                    {Absent}, BOOLEAN)
    /\ ManagerIdle /\ AdapterIdle /\ MonitorIdle
    /\ rth = [th \in ResolverThreads |-> ThreadIdle]
    /\ pump = << >> /\ pull = << >> /\ rm = << >> /\ conf = << >>
    /\ files = << >> /\ web = << >> /\ ex = << >> /\ hnd = << >> /\ scm = << >>

SpecResolverThreads == InitResolverThreads /\ [][NextResolverThreads]_vars

\* C34: when several threads call resolve_image and invalidate_cache on one
\* PolicyResolver, no call raises, and every resolve_image call returns an
\* image of the hub's policy or the config default.
C34_CacheSafeUnderThreads ==
    \A th \in ResolverThreads :
       rth[th].n > 0 => ~rth[th].raised

-----------------------------------------------------------------------------
(* A details handler reading an entry while the registries are updated *)

\* the fields of an entry the handler puts into its response
Fields(o) == [status |-> o.status, finished_at |-> o.finished_at]

NoFields == [status |-> "", finished_at |-> None]

HandlerIdle ==
    [pc |-> "idle", kind |-> "", id |-> 0, status |-> "", n |-> 0,
     code |-> 0, data |-> NoFields, states |-> {}, one_state |-> TRUE]

\* self._containers or self._tasks
RegistryOf(kind) == IF kind = "container" THEN containers ELSE tasks

\* the handler holds the entry returned by get
Holds(kind, id) == hnd.pc # "idle" /\ hnd.kind = kind /\ hnd.id = id

MaxInterleaved == 2   \* registry calls that land inside one request

\* The registry calls a task makes while the server answers requests;
\* states collects the states the held entry goes through during a request.
HRegistryCall(kind, op, id, status) ==
    /\ CASE op = "register" ->
              /\ kind = "container" /\ status = "created"
              /\ id \notin DOMAIN containers
              /\ containers' = register(containers, id, None)
              /\ UNCHANGED tasks
         [] op = "unregister" ->
              /\ kind = "container" /\ status = "removed"
              /\ containers' = unregister(containers, id, clock)
              /\ UNCHANGED tasks
         [] op = "update_status" ->
              /\ kind = "container" /\ status \in ContainerStatuses
              /\ containers' = update_status(containers, id, status)
              /\ UNCHANGED tasks
         [] op = "register_task" ->
              /\ kind = "task" /\ status = "running"
              /\ id \notin DOMAIN tasks
              /\ tasks' = register_task(tasks, id, "")
              /\ UNCHANGED containers
         [] op = "update_task_status" ->
              /\ kind = "task" /\ status \in TaskStatuses
              /\ tasks' = update_task_status(tasks, id, status, clock)
              /\ UNCHANGED containers
    /\ Holds(kind, id) => Cardinality(hnd.states) <= MaxInterleaved
    /\ rop' = [op |-> op, id |-> id, ret |-> 0]
    /\ hnd' = IF Holds(kind, id)
              THEN [hnd EXCEPT !.states = @ \cup {Fields(RegistryOf(kind)'[id])}]
              ELSE hnd
    /\ UNCHANGED <<clock, resp, threadVars>>
    /\ UNCHANGED <<policyVars, managerVars, adapterVars>>
    /\ UNCHANGED <<pump, pull, rm, conf, files, web, ex, rth, scm>>

HandlerFrame ==
    /\ UNCHANGED <<monitorVars, policyVars, managerVars, adapterVars>>
    /\ UNCHANGED <<pump, pull, rm, conf, files, web, ex, rth, scm>>

\* registry.get(id) under the lock: the entry itself is returned, or None
\* and the handler answers 404
HGet(kind, id) ==
    /\ hnd.pc = "idle"
    /\ hnd.n < MaxRequests
    /\ hnd' = IF id \in DOMAIN RegistryOf(kind)
              THEN [hnd EXCEPT !.pc = "status", !.kind = kind, !.id = id,
                               !.states = {Fields(RegistryOf(kind)[id])}]
              ELSE [hnd EXCEPT !.n = @ + 1, !.kind = kind, !.id = id,
                               !.code = 404, !.data = NoFields]
    /\ HandlerFrame

\* "status": container.status / task.status, read from the entry
HReadStatus ==
    /\ hnd.pc = "status"
    /\ hnd' = [hnd EXCEPT !.pc = "finished_at",
                          !.status = RegistryOf(hnd.kind)[hnd.id].status]
    /\ HandlerFrame

\* "finished_at": ... read from the entry, then _send_json(200, data)
HReadFinishedAt ==
    /\ hnd.pc = "finished_at"
    /\ LET data == [status |-> hnd.status,
                    finished_at |-> RegistryOf(hnd.kind)[hnd.id].finished_at]
       IN  hnd' = [hnd EXCEPT !.pc = "idle", !.n = @ + 1, !.code = 200,
                              !.status = "",
                              !.data = data, !.states = {},
                              !.one_state = (data \in hnd.states)]
    /\ HandlerFrame

NextHandler ==
    \/ \E kind \in {"container", "task"},
          op \in {"register", "unregister", "update_status", "register_task",
                  "update_task_status"},
          status \in ContainerStatuses \cup TaskStatuses :
          HRegistryCall(kind, op, 1, status)
    \/ \E kind \in {"container", "task"} : HGet(kind, 1)
    \/ HReadStatus
    \/ HReadFinishedAt

InitHandler ==
    /\ PolicyIdle /\ ManagerIdle /\ AdapterIdle /\ MonitorIdle
    /\ hnd = HandlerIdle
    /\ pump = << >> /\ pull = << >> /\ rm = << >> /\ conf = << >>
    /\ files = << >> /\ web = << >> /\ ex = << >> /\ rth = << >> /\ scm = << >>

SpecHandler == InitHandler /\ [][NextHandler]_vars

\* C35: the status and finished_at a details handler puts into one response
\* are those the entry had in one registry state between the handler's get
\* and its send: a response never pairs a status from before a concurrent
\* unregister or update_task_status with a finished_at from after it.
C35_ResponseFromOneState ==
    (hnd.pc = "idle" /\ hnd.code = 200) => hnd.one_state

-----------------------------------------------------------------------------
(* Policy values of invalid shape in the tag extra (policy/resolver.py) *)

\* a value that is not a dict, and a dict without the "rules" key
NonDict == [kind |-> "list", rules |-> << >>]
NoRulesDict == [kind |-> "dict_norules", rules |-> << >>]

\* the invalid shapes: text that is not JSON, a non-dict, a dict without rules
InvalidShapes == { InvalidJson, NonDict, NoRulesDict }

\* resolve_image calls on resolvers whose tag extra holds an invalid value
\* (or none) while the build config holds a policy, an invalid value or none
InitInvalid ==
    /\ InitResolver(InvalidShapes \cup {Absent},
                    { Absent, InvalidJson, PolicyDict(<< DefaultRule("D") >>),
                      PolicyDict(<< TagRule("f39", "T") >>) },
                    {TRUE})
    /\ ManagerIdle /\ AdapterIdle /\ MonitorIdle /\ AuxIdle

NextInvalid ==
    /\ calls < MaxRuns
    /\ \E t \in Tags, a \in Archs, k \in TaskTypes : Resolve(t, a, k, FALSE, FALSE)

SpecInvalid == InitInvalid /\ [][NextInvalid]_vars

\* C36: against a tag whose extra holds an adjutant_image_policy of invalid
\* shape, a resolve_image call returns the image, and leaves the cache,
\* that the same call returns against a tag without a policy: the build
\* config's policy is used if valid, and the config default otherwise.
C36_InvalidTreatedAsAbsent ==
    [][\A t \in Tags, a \in Archs, k \in TaskTypes :
         (hubTag \in InvalidShapes /\ Resolve(t, a, k, FALSE, FALSE)) =>
            LET absent == resolve_image(cache, now, policy_enabled,
                                        Absent, hubConfig, t, a, k, FALSE, FALSE)
            IN  /\ lastCall'.image = absent.image
                /\ cache' = absent.cache]_vars

-----------------------------------------------------------------------------
(* Values that cannot be converted (config.py) *)

\* C37: a lookup of an option that has the converter int resolves to an
\* integer: a value found in a source that int() rejects does not come
\* back as the string it was, the option resolves to its default.
C37_UnconvertibleNeverLeaks ==
    (conf.last.call = "get" /\ ConverterOf(conf.last.key) = "int") =>
        conf.last.result.t = "int"

-----------------------------------------------------------------------------
(* PodmanManager.exec (container/podman_manager.py) *)

MaxExecs == 2   \* exec calls per behaviour

\* what container.exec_run(stream=True) returns: the generator alone, or a
\* tuple whose first element is None or the exit code
ExecRunForms == {"generator", "tuple_none", "tuple_code"}

Commands == {"mkdir", "git clone"}
ExitCodes == {0, 1}

\* one run of a command inside the container by exec_run
Execution(command, exit_code, stream) ==
    [command |-> command, exit_code |-> exit_code, stream |-> stream]

\* isinstance(exec_result, tuple) and len(exec_result) == 2, then
\* exit_code_hint is not None
has_exit_code_hint(form) == form = "tuple_code"

\* the runs of the command one exec call causes: the streaming exec_run,
\* and a second exec_run(stream=False) when the first gave no exit code
exec_runs(form, command, code1, code2) ==
    IF has_exit_code_hint(form)
    THEN << Execution(command, code1, TRUE) >>
    ELSE << Execution(command, code1, TRUE), Execution(command, code2, FALSE) >>

\* the exit code exec returns: that of the last exec_run it made
exec_returns(runs) == runs[Len(runs)].exit_code

\* PodmanManager.exec(handle, command, sink): containers.get, exec_run,
\* the chunks written to the sink, the exit code returned; ContainerError
\* when the container is not found or the engine fails
XExec(command, found, api_error, code1, code2) ==
    /\ Len(ex.calls) < MaxExecs
    /\ IF ~found \/ api_error
       THEN ex' = [ex EXCEPT !.calls = Append(@,
                      [command |-> command, raised |-> TRUE, runs |-> << >>,
                       returned |-> 0, sink |-> << >>])]
       ELSE LET runs == exec_runs(ex.form, command, code1, code2)
            IN  ex' = [ex EXCEPT
                         !.executions = @ \o runs,
                         !.calls = Append(@,
                            [command |-> command, raised |-> FALSE, runs |-> runs,
                             returned |-> exec_returns(runs),
                             sink |-> << runs[1] >>])]
    /\ UNCHANGED <<policyVars, managerVars, adapterVars, monitorVars>>
    /\ UNCHANGED <<pump, pull, rm, conf, files, web, rth, hnd, scm>>

NextExec ==
    \E command \in Commands, found \in BOOLEAN, api_error \in BOOLEAN,
       code1 \in ExitCodes, code2 \in ExitCodes :
       XExec(command, found, api_error, code1, code2)

InitExec ==
    /\ PolicyIdle /\ ManagerIdle /\ AdapterIdle /\ MonitorIdle
    /\ \E form \in ExecRunForms :
          ex = [form |-> form, executions |-> << >>, calls |-> << >>]
    /\ pump = << >> /\ pull = << >> /\ rm = << >> /\ conf = << >>
    /\ files = << >> /\ web = << >> /\ rth = << >> /\ hnd = << >> /\ scm = << >>

SpecExec == InitExec /\ [][NextExec]_vars

\* C38: an exec call that returns has caused exactly one run of its command
\* inside the container, and the exit code it returns is the exit code of
\* that run, whose output went to the sink.
C38_ExecRunsOnce ==
    \A i \in 1..Len(ex.calls) :
       LET call == ex.calls[i] IN
       ~call.raised =>
          /\ Len(call.runs) = 1
          /\ call.sink = call.runs
          /\ call.returned = call.runs[1].exit_code

-----------------------------------------------------------------------------
(* GitHandler.checkout on a running container (task_adapters/scm/git.py) *)

\* the sink GitHandler.checkout hands to container_manager.exec
CheckoutSink == "None"

\* PodmanManager.exec streaming the output of a command that exits with
\* exit_code: every non-empty chunk goes to sink.write_stdout /
\* sink.write_stderr, which is an AttributeError when the sink is None
exec_with_sink(sink, exit_code, wrote) ==
    IF wrote /\ sink = "None"
    THEN [raised |-> "AttributeError", exit_code |-> 0]
    ELSE [raised |-> "", exit_code |-> exit_code]

\* the next command of checkout is issued: it exits with exit_code inside
\* the container, having written output or not
GStep(exit_code, wrote) ==
    /\ scm.result = ""
    /\ LET step == GitCheckout(scm.ref_type)[scm.idx]
           r == exec_with_sink(CheckoutSink, exit_code, wrote)
           last == scm.idx = Len(GitCheckout(scm.ref_type))
       IN  scm' = [scm EXCEPT
                     !.log = Append(@, [label |-> step.label, check |-> step.check,
                                        exit_code |-> exit_code, wrote |-> wrote]),
                     !.idx = @ + 1,
                     !.result = IF r.raised # "" THEN r.raised
                                ELSE IF step.check /\ r.exit_code # 0
                                THEN "ContainerError"
                                ELSE IF last THEN "metadata" ELSE ""]
    /\ UNCHANGED <<policyVars, managerVars, adapterVars, monitorVars>>
    /\ UNCHANGED <<pump, pull, rm, conf, files, web, ex, rth, hnd>>

\* GitHandler(url).checkout(manager, handle, dest_dir) is called again; earlier keeps how
\* the calls before it ended
GCheckout(ref_type) ==
    /\ scm.result # ""
    /\ Len(scm.earlier) + 1 < MaxRuns
    /\ scm' = [ref_type |-> ref_type, idx |-> 1, log |-> << >>, result |-> "",
               earlier |-> Append(scm.earlier, scm.result)]
    /\ UNCHANGED <<policyVars, managerVars, adapterVars, monitorVars>>
    /\ UNCHANGED <<pump, pull, rm, conf, files, web, ex, rth, hnd>>

NextCheckout ==
    \/ \E exit_code \in ExitCodes, wrote \in BOOLEAN : GStep(exit_code, wrote)
    \/ \E ref_type \in {"commit", "branch"} : GCheckout(ref_type)

InitCheckout ==
    /\ PolicyIdle /\ ManagerIdle /\ AdapterIdle /\ MonitorIdle
    /\ \E ref_type \in {"commit", "branch"} :
          scm = [ref_type |-> ref_type, idx |-> 1, log |-> << >>, result |-> "",
                 earlier |-> << >>]
    /\ pump = << >> /\ pull = << >> /\ rm = << >> /\ conf = << >>
    /\ files = << >> /\ web = << >> /\ ex = << >> /\ rth = << >> /\ hnd = << >>

SpecCheckout == InitCheckout /\ [][NextCheckout]_vars

\* C40: a checkout whose mkdir, git clone and git checkout commands all exit
\* 0 returns its metadata, whether or not the commands wrote output; and no
\* command is issued after one of them exited non-zero.
C40_CheckoutDependsOnExitCodes ==
    /\ \A i \in 1..Len(scm.log) :
          (scm.log[i].check /\ scm.log[i].exit_code # 0) => i = Len(scm.log)
    /\ (scm.result # "" /\ \A i \in 1..Len(scm.log) :
                              scm.log[i].check => scm.log[i].exit_code = 0)
          => scm.result = "metadata"

-----------------------------------------------------------------------------
(* The resolver of the adapters' build_spec (task_adapters/buildarch.py) *)

\* PolicyResolver.__init__: self._cache = {}
NewResolverCache == << >>

\* build_spec of BuildArchAdapter (task_type "buildArch") and of
\* CreaterepoAdapter ("createrepo"), with a session: when the policy is
\* enabled, `resolver = PolicyResolver(session)` and resolver.resolve_image;
\* otherwise the config default.  cache is the cache of the resolver in use.
BuildSpecImage(tag_name, arch, task_type) ==
    /\ calls < MaxCalls
    /\ \E r \in { resolve_image(NewResolverCache, now, policy_enabled, hubTag,
                                hubConfig, tag_name, arch, task_type, FALSE, FALSE) } :
          /\ cache' = IF policy_enabled THEN r.cache ELSE cache
          /\ calls' = calls + 1
          /\ lastCall' = [n |-> calls + 1, tag_name |-> tag_name, arch |-> arch,
                          task_type |-> task_type, image |-> r.image, hit |-> r.hit,
                          fetched |-> r.fetched, raised |-> r.raised,
                          policy |-> r.policy]
          /\ resolves' = [resolves EXCEPT ![<<tag_name, arch>>] = @ + 1]
          /\ hubCalls' = [hubCalls EXCEPT ![<<tag_name, arch>>] =
                              @ + (IF r.fetched THEN 1 ELSE 0)]
    /\ UNCHANGED <<hubTag, hubConfig, policy_enabled, now, hubErrored, evicted>>
    /\ UNCHANGED <<managerVars, adapterVars, monitorVars, auxVars>>

\* The hubs hold a policy with a default rule in the tag extra, so that a
\* cached policy answers every call.
NextBuildSpec ==
    \/ \E t \in Tags, a \in Archs, k \in TaskTypes : BuildSpecImage(t, a, k)
    \/ Tick

InitBuildSpec ==
    /\ InitResolver({ PolicyDict(ScenarioRules), PolicyDict(<< DefaultRule("D") >>) },
                    { Absent, PolicyDict(<< DefaultRule("D2") >>) }, BOOLEAN)
    /\ ManagerIdle /\ AdapterIdle /\ MonitorIdle /\ AuxIdle

SpecBuildSpec == InitBuildSpec /\ [][NextBuildSpec]_vars

\* C39: while the TTL of the first fetch has not run out, the build_spec
\* calls made for one (tag, arch) against an unchanged hub have issued at
\* most one policy fetch to the hub between them.
C39_CachePersistsAcrossRuns ==
    now < ttl_seconds => \A key \in Keys : hubCalls[key] <= 1

=============================================================================
